---- MODULE Spec2Model ----
(***************************************************************************)
(* Model of the CryptoQuant MCP server's session/permission coordinator,   *)
(* plan-limits resolver, endpoint catalog and discovery cache store.       *)
(*                                                                         *)
(* JavaScript strings are sequences of atoms: an atom is a run of          *)
(* characters without "/" (or a single character where the code looks at   *)
(* single characters), and "/" is an atom of its own.  JavaScript values   *)
(* that the code handles untyped (JSON payloads, the cache record, null-   *)
(* able fields) are tagged records [t |-> type, v |-> value].              *)
(***************************************************************************)
EXTENDS Integers, Sequences, FiniteSets, TLC

VARIABLES
    now,               \* wall clock (Date.now()), in days
    cacheFile,         \* content of ~/.cryptoquant/discovery-cache.json
    planLimitsState,   \* plan-limits.ts: let planLimitsState
    permissionState,   \* permissions.ts: let permissionState
    cachedDiscovery,   \* permissions.ts: let cachedDiscovery
    endpointCatalog,   \* discovery.ts: let endpointCatalog
    pc,                \* per initializePermissions call: the await it is suspended at
    loc,               \* per call: its arguments and local variables
    ret,               \* the operation step taken last: its input and its return value
    inits              \* how many initializePermissions calls were started

vars == <<now, cacheFile, planLimitsState, permissionState, cachedDiscovery,
          endpointCatalog, pc, loc, ret, inits>>

(***************************************************************************)
(* JavaScript values                                                       *)
(***************************************************************************)
JUndef == [t |-> "undefined"]
JNull == [t |-> "null"]
\* an object entry under a one-atom key
E(k, v) == [k |-> <<k>>, v |-> v]
JStr(s) == [t |-> "string", v |-> s]
JNum(n) == [t |-> "number", v |-> n]
JObj(entries) == [t |-> "object", v |-> entries]
JArr(items) == [t |-> "array", v |-> items]
JBool(b) == [t |-> "boolean", v |-> b]

\* a one-atom string
S(a) == JStr(<<a>>)

\* !!x
Truthy(j) ==
    CASE j.t = "undefined" -> FALSE
      [] j.t = "null" -> FALSE
      [] j.t = "string" -> j.v # <<>>
      [] j.t = "number" -> j.v # 0
      [] j.t = "boolean" -> j.v
      [] OTHER -> TRUE

\* typeof x === "object"
TypeofObject(j) == j.t \in {"object", "array", "null"}

\* Object.entries(x) of an object or an array
Entries(j) ==
    CASE j.t = "object" -> j.v
      [] j.t = "array" -> [i \in 1..Len(j.v) |-> [k |-> <<ToString(i - 1)>>, v |-> j.v[i]]]
      [] OTHER -> <<>>

\* x[key] of a non-nullish value (own properties only)
Prop(j, key) ==
    LET es == Entries(j)
        hits == {i \in 1..Len(es) : es[i].k = key}
    IN  IF hits = {} THEN JUndef ELSE es[CHOOSE i \in hits : TRUE].v

\* the names every object literal inherits from Object.prototype, those the model uses
ObjectPrototypeNames == {<<"constructor">>, <<"toString">>, <<"valueOf">>}

\* x[key] of a non-nullish value, inherited properties included
Member(j, key) ==
    IF Prop(j, key) # JUndef THEN Prop(j, key)
    ELSE IF j.t = "object" /\ key \in ObjectPrototypeNames THEN [t |-> "function"]
    ELSE JUndef

\* x?.[key]
OptProp(j, key) == IF j.t \in {"undefined", "null"} THEN JUndef ELSE Prop(j, key)

\* x ?? y
Coalesce(j, d) == IF j.t \in {"undefined", "null"} THEN d ELSE j

(***************************************************************************)
(* Strings                                                                 *)
(***************************************************************************)
RECURSIVE SplitFrom(_, _, _, _)
SplitFrom(s, i, cur, acc) ==
    IF i > Len(s) THEN Append(acc, cur)
    ELSE IF s[i] = "/" THEN SplitFrom(s, i + 1, <<>>, Append(acc, cur))
    ELSE SplitFrom(s, i + 1, Append(cur, s[i]), acc)

\* s.split("/")
Split(s) == SplitFrom(s, 1, <<>>, <<>>)

RECURSIVE JoinFrom(_, _)
\* parts.slice(i).join("/")
JoinFrom(parts, i) ==
    IF i > Len(parts) THEN <<>>
    ELSE IF i = Len(parts) THEN parts[i]
    ELSE parts[i] \o <<"/">> \o JoinFrom(parts, i + 1)

\* s.slice(0, n)
Slice(s, n) == SubSeq(s, 1, IF Len(s) < n THEN Len(s) ELSE n)

\* s.toLowerCase(), on the atoms plan names, paths and queries are made of
ToLower(a) ==
    CASE a = "BASIC" -> "basic"
      [] a = "USD" -> "usd"
      [] a = "BTC" -> "btc"
      [] a = "ADVANCED" -> "advanced"
      [] a = "PROFESSIONAL" -> "professional"
      [] a = "Professional" -> "professional"
      [] a = "PREMIUM" -> "premium"
      [] a = "Premium" -> "premium"
      [] a = "CUSTOM" -> "custom"
      [] a = "ENTERPRISE" -> "enterprise"
      [] OTHER -> a

Digits == {"0", "1", "2", "3", "4", "5", "6", "7", "8", "9"}

\* s.map(f)
MapSeq(s, f(_)) == [i \in 1..Len(s) |-> f(s[i])]

RECURSIVE SumSeq(_)
SumSeq(s) == IF s = <<>> THEN 0 ELSE Head(s) + SumSeq(Tail(s))

\* the elements of s in order of first occurrence (insertion order of a Map or Set)
RECURSIVE Dedupe(_)
Dedupe(s) ==
    IF s = <<>> THEN <<>>
    ELSE LET front == Dedupe(SubSeq(s, 1, Len(s) - 1))
             last == s[Len(s)]
         IN  IF \E i \in 1..Len(front) : front[i] = last THEN front ELSE Append(front, last)

\* code-unit order of the atoms that asset and category names are made of
AtomOrder == <<"/", "0", "1", "2", "btc", "eth", "market-data", "network-data", "status", "v1">>

AtomRank(a) ==
    IF \E i \in 1..Len(AtomOrder) : AtomOrder[i] = a
    THEN CHOOSE i \in 1..Len(AtomOrder) : AtomOrder[i] = a
    ELSE Len(AtomOrder) + 1

\* a < b for strings, atom by atom
RECURSIVE StrLess(_, _)
StrLess(a, b) ==
    IF b = <<>> THEN FALSE
    ELSE IF a = <<>> THEN TRUE
    ELSE IF AtomRank(Head(a)) # AtomRank(Head(b)) THEN AtomRank(Head(a)) < AtomRank(Head(b))
    ELSE StrLess(Tail(a), Tail(b))

(***************************************************************************)
(* Plan-Limits Resolver (plan-limits.ts)                                   *)
(***************************************************************************)
PLAN_DEFAULT_STATE ==
    [loaded |-> FALSE, limits |-> JNull, plan |-> "unknown", statics |-> JArr(<<>>),
     apiRateLimit |-> JNull, fetched_at |-> JNull]

normalizePlanName(apiPlanName) ==
    LET normalized == MapSeq(apiPlanName, ToLower)
    IN  CASE normalized = <<"basic">> -> "basic"
          [] normalized = <<"advanced">> -> "advanced"
          [] normalized = <<"professional">> -> "professional"
          [] normalized = <<"premium">> -> "premium"
          [] normalized = <<"custom">> -> "custom"
          [] OTHER -> "unknown"

\* /^P\d+[YMWD]$/.test(value)
IsDurationToken(s) ==
    /\ Len(s) >= 3
    /\ s[1] = "P"
    /\ s[Len(s)] \in {"Y", "M", "W", "D"}
    /\ \A i \in 2..(Len(s) - 1) : s[i] \in Digits

IsNonNullObject(j) == TypeofObject(j) /\ j.t # "null"

\* the inner loop of parseApiResponse: the window entries of one metric
WindowLimitsOf(md) ==
    SelectSeq(Entries(md), LAMBDA e : e.v.t = "string" /\ IsDurationToken(e.v.v))

\* a metric is kept whether or not it has a valid window
MetricsOf_KeepsEmpty(metrics) ==
    LET kept == SelectSeq(Entries(metrics), LAMBDA e : IsNonNullObject(e.v))
        leaf(e) == [k |-> e.k, v |-> JObj(<<E("window", JObj(WindowLimitsOf(e.v)))>>)]
    IN  JObj(MapSeq(kept, leaf))

\* limits[asset][category]: the metrics of one category that have a valid window
MetricsOf(metrics) ==
    LET kept == SelectSeq(Entries(metrics),
                          LAMBDA e : IsNonNullObject(e.v) /\ WindowLimitsOf(e.v) # <<>>)
        leaf(e) == [k |-> e.k, v |-> JObj(<<E("window", JObj(WindowLimitsOf(e.v)))>>)]
    IN  JObj(MapSeq(kept, leaf))

\* limits[asset]: the categories of one asset
CategoriesOf(categories) ==
    LET kept == SelectSeq(Entries(categories), LAMBDA e : IsNonNullObject(e.v))
        cat(e) == [k |-> e.k, v |-> MetricsOf(e.v)]
    IN  JObj(MapSeq(kept, cat))

\* the limits object parseApiResponse builds from obj.apiEndpoint
AssetsOf(apiEndpoint) ==
    LET kept == SelectSeq(Entries(apiEndpoint),
                          LAMBDA e : e.k # <<"statics">> /\ IsNonNullObject(e.v))
        asset(e) == [k |-> e.k, v |-> CategoriesOf(e.v)]
    IN  JObj(MapSeq(kept, asset))

parseApiResponse(data) ==
    LET empty == [limits |-> JNull, statics |-> JArr(<<>>), apiRateLimit |-> JNull,
                  planName |-> JNull]
        plan == Prop(data, <<"plan">>)
        apiEndpoint == Prop(data, <<"apiEndpoint">>)
        rl == Prop(data, <<"apiRateLimit">>)
        hasEndpoint == Truthy(apiEndpoint) /\ TypeofObject(apiEndpoint)
        limits == AssetsOf(apiEndpoint)
    IN  IF ~Truthy(data) \/ ~TypeofObject(data) THEN empty
        ELSE [planName |->
                 IF Truthy(plan) /\ TypeofObject(plan) /\ Prop(plan, <<"name">>).t = "string"
                 THEN Prop(plan, <<"name">>) ELSE JNull,
              limits |->
                 IF hasEndpoint /\ Len(limits.v) > 0 THEN limits ELSE JNull,
              statics |->
                 IF hasEndpoint /\ Prop(apiEndpoint, <<"statics">>).t = "array"
                 THEN Prop(apiEndpoint, <<"statics">>) ELSE JArr(<<>>),
              apiRateLimit |->
                 IF /\ Truthy(rl) /\ TypeofObject(rl)
                    /\ Prop(rl, <<"token">>).t = "number"
                    /\ Prop(rl, <<"window">>).t = "string"
                 THEN JObj(<<E("token", Prop(rl, <<"token">>)),
                             E("window", Prop(rl, <<"window">>))>>)
                 ELSE JNull]

\* every duration of every window of every metric, flattened in iteration order
RECURSIVE Flatten(_)
Flatten(ss) == IF ss = <<>> THEN <<>> ELSE Head(ss) \o Flatten(Tail(ss))

DurationsOf(limits) ==
    LET ofMetric(e) ==
            IF Truthy(OptProp(e.v, <<"window">>))
            THEN MapSeq(Entries(Prop(e.v, <<"window">>)), LAMBDA w : w.v)
            ELSE <<>>
        ofCategory(e) == IF Truthy(e.v) THEN Flatten(MapSeq(Entries(e.v), ofMetric)) ELSE <<>>
        ofAsset(e) == IF Truthy(e.v) THEN Flatten(MapSeq(Entries(e.v), ofCategory)) ELSE <<>>
    IN  Flatten(MapSeq(Entries(limits), ofAsset))

\* the counters collectDurationCounts returns, given every duration it walks over
CountDurations(ds) ==
    [p0d |-> Len(SelectSeq(ds, LAMBDA d : d = JStr(<<"P", "0", "D">>))),
     p3y |-> Len(SelectSeq(ds, LAMBDA d : d = JStr(<<"P", "3", "Y">>))),
     p1d |-> Len(SelectSeq(ds, LAMBDA d : d = JStr(<<"P", "1", "D">>))),
     total |-> Len(ds)]

collectDurationCounts(limits) == CountDurations(DurationsOf(limits))

\* the thresholds are reached by a ratio equal to them
PlanOfCounts_Inclusive(counts) ==
    IF counts.total = 0 THEN "basic"
    ELSE IF 2 * counts.p1d >= counts.total THEN "basic"
    ELSE IF 2 * counts.p0d >= counts.total THEN "premium"
    ELSE IF 10 * counts.p3y >= 3 * counts.total THEN "professional"
    ELSE "advanced"

\* the thresholds of detectPlanFromLimits: ratio > 0.5 and ratio > 0.3, as
\* comparisons of integers
PlanOfCounts(counts) ==
    IF counts.total = 0 THEN "basic"
    ELSE IF 2 * counts.p1d > counts.total THEN "basic"
    ELSE IF 2 * counts.p0d > counts.total THEN "premium"
    ELSE IF 10 * counts.p3y > 3 * counts.total THEN "professional"
    ELSE "advanced"

detectPlanFromLimits(limits) ==
    IF ~Truthy(limits) THEN "basic" ELSE PlanOfCounts(collectDurationCounts(limits))

parseEndpointPath(endpointPath) ==
    LET parts == Split(endpointPath)
    IN  IF Len(parts) < 5 THEN JNull
        ELSE JObj(<<E("asset", JStr(parts[3])), E("category", JStr(parts[4])),
                    E("metric", JStr(JoinFrom(parts, 5)))>>)

getMetricLimits(pls, endpointPath) ==
    LET parsed == parseEndpointPath(endpointPath)
        asset == Prop(parsed, <<"asset">>).v
        category == Prop(parsed, <<"category">>).v
        metric == Prop(parsed, <<"metric">>).v
    IN  IF ~Truthy(pls.limits) THEN JNull
        ELSE IF ~Truthy(parsed) THEN JNull
        ELSE Coalesce(OptProp(OptProp(Prop(pls.limits, asset), category), metric), JNull)

\* windowType is JUndef when the caller passes none
getPlanLimit(pls, endpointPath, windowType) ==
    LET metricLimits == getMetricLimits(pls, endpointPath)
        window == OptProp(metricLimits, <<"window">>)
        windows == Entries(window)
    IN  IF ~Truthy(window) THEN JNull
        ELSE IF Truthy(windowType) /\ Truthy(Member(window, windowType.v))
        THEN Member(window, windowType.v)
        ELSE IF Len(windows) > 0 THEN Prop(window, windows[1].k) ELSE JNull

\* hasEndpointAccess failing open only while nothing is loaded
hasEndpointAccess_UnknownTierChecked(pls, endpointPath) ==
    IF ~pls.loaded THEN TRUE
    ELSE IF \E i \in 1..Len(pls.statics.v) : pls.statics.v[i] = JStr(endpointPath) THEN TRUE
    ELSE IF pls.plan = "basic" /\ ~Truthy(pls.limits) THEN FALSE
    ELSE IF getPlanLimit(pls, endpointPath, JUndef) # JNull THEN TRUE
    ELSE IF pls.plan \in {"premium", "professional", "custom"} THEN TRUE
    ELSE FALSE

\* hasEndpointAccess giving the advanced tier the implicit full access too
hasEndpointAccess_AdvancedImplicit(pls, endpointPath) ==
    IF ~pls.loaded \/ pls.plan = "unknown" THEN TRUE
    ELSE IF \E i \in 1..Len(pls.statics.v) : pls.statics.v[i] = JStr(endpointPath) THEN TRUE
    ELSE IF pls.plan = "basic" /\ ~Truthy(pls.limits) THEN FALSE
    ELSE IF getPlanLimit(pls, endpointPath, JUndef) # JNull THEN TRUE
    ELSE IF pls.plan \in {"premium", "professional", "custom", "advanced"} THEN TRUE
    ELSE FALSE

\* hasEndpointAccess denying basic-without-table before it looks at the statics
hasEndpointAccess_DenialFirst(pls, endpointPath) ==
    IF ~pls.loaded \/ pls.plan = "unknown" THEN TRUE
    ELSE IF pls.plan = "basic" /\ ~Truthy(pls.limits) THEN FALSE
    ELSE IF \E i \in 1..Len(pls.statics.v) : pls.statics.v[i] = JStr(endpointPath) THEN TRUE
    ELSE IF getPlanLimit(pls, endpointPath, JUndef) # JNull THEN TRUE
    ELSE IF pls.plan \in {"premium", "professional", "custom"} THEN TRUE
    ELSE FALSE

hasEndpointAccess(pls, endpointPath) ==
    IF ~pls.loaded \/ pls.plan = "unknown" THEN TRUE
    ELSE IF \E i \in 1..Len(pls.statics.v) : pls.statics.v[i] = JStr(endpointPath) THEN TRUE
    ELSE IF pls.plan = "basic" /\ ~Truthy(pls.limits) THEN FALSE
    ELSE IF getPlanLimit(pls, endpointPath, JUndef) # JNull THEN TRUE
    ELSE IF pls.plan \in {"premium", "professional", "custom"} THEN TRUE
    ELSE FALSE

(***************************************************************************)
(* Dates. An instant is a number of ticks since 1970-01-01T00:00Z, a day   *)
(* has TicksPerDay ticks, and the process runs in UTC.                     *)
(***************************************************************************)
TicksPerDay == 2

\* the value of an invalid Date's getTime()
NaN == -1

\* the day number of a civil date; a day or month out of range carries over,
\* as in Date.UTC
DaysFromCivil(year, month, day) ==
    LET months == 12 * year + (month - 1)
        m == (months % 12) + 1
        y == (months \div 12) - (IF m <= 2 THEN 1 ELSE 0)
        era == y \div 400
        yoe == y - 400 * era
        doy == ((153 * (IF m > 2 THEN m - 3 ELSE m + 9) + 2) \div 5) + day - 1
        doe == 365 * yoe + (yoe \div 4) - (yoe \div 100) + doy
    IN  146097 * era + doe - 719468

\* getUTCFullYear, getUTCMonth + 1 and getUTCDate of a day number
CivilFromDays(days) ==
    LET z == days + 719468
        era == z \div 146097
        doe == z - 146097 * era
        yoe == (doe - (doe \div 1460) + (doe \div 36524) - (doe \div 146096)) \div 365
        doy == doe - (365 * yoe + (yoe \div 4) - (yoe \div 100))
        mp == (5 * doy + 2) \div 153
        m == IF mp < 10 THEN mp + 3 ELSE mp - 9
    IN  [year |-> yoe + 400 * era + (IF m <= 2 THEN 1 ELSE 0), month |-> m,
         day |-> doy - ((153 * mp + 2) \div 5) + 1]

\* the decimal digits of n, width of them
DigitsOf(n, width) ==
    LET RECURSIVE pow(_)
        pow(e) == IF e = 0 THEN 1 ELSE 10 * pow(e - 1)
    IN  [i \in 1..width |-> ToString((n \div pow(width - i)) % 10)]

\* parseInt(digits, 10) of a string of digits
RECURSIVE ParseInt(_)
ParseInt(digits) ==
    IF digits = <<>> THEN 0
    ELSE 10 * ParseInt(SubSeq(digits, 1, Len(digits) - 1))
             + (CHOOSE n \in 0..9 : ToString(n) = digits[Len(digits)])

\* date.toISOString().split("T")[0]
DateOnly(t) ==
    LET c == CivilFromDays(t \div TicksPerDay)
    IN  DigitsOf(c.year, 4) \o <<"-">> \o DigitsOf(c.month, 2) \o <<"-">> \o DigitsOf(c.day, 2)

\* the time of day the model's date-time strings can carry
NoonSuffix == <<"T", "1", "2", ":", "0", "0", "Z">>

\* new Date(s).getTime() of YYYY-MM-DD and YYYY-MM-DDT12:00Z with a day of the
\* calendar; NaN for every other string of the model
DateOfString(s) ==
    LET wellFormed ==
            /\ Len(s) \in {10, 10 + Len(NoonSuffix)}
            /\ \A i \in {1, 2, 3, 4, 6, 7, 9, 10} : s[i] \in Digits
            /\ s[5] = "-" /\ s[8] = "-"
            /\ Len(s) > 10 => SubSeq(s, 11, Len(s)) = NoonSuffix
        year == ParseInt(SubSeq(s, 1, 4))
        month == ParseInt(SubSeq(s, 6, 7))
        day == ParseInt(SubSeq(s, 9, 10))
        days == DaysFromCivil(year, month, day)
    IN  IF wellFormed /\ month \in 1..12 /\ day >= 1
           /\ CivilFromDays(days) = [year |-> year, month |-> month, day |-> day]
        THEN TicksPerDay * days + (IF Len(s) > 10 THEN TicksPerDay \div 2 ELSE 0)
        ELSE NaN

\* a week counted as one day
parseDurationToDate_WeekAsDays(duration, t) ==
    IF duration = <<"P", "0", "D">> THEN JNull
    ELSE IF ~IsDurationToken(duration) THEN JNull
    ELSE LET value == ParseInt(SubSeq(duration, 2, Len(duration) - 1))
             unit == duration[Len(duration)]
             c == CivilFromDays(t \div TicksPerDay)
             days == CASE unit = "Y" -> DaysFromCivil(c.year - value, c.month, c.day)
                       [] unit = "M" -> DaysFromCivil(c.year, c.month - value, c.day)
                       [] unit = "W" -> DaysFromCivil(c.year, c.month, c.day - value)
                       [] unit = "D" -> DaysFromCivil(c.year, c.month, c.day - value)
         IN  JNum(TicksPerDay * days + (t % TicksPerDay))

\* the Date parseDurationToDate returns at instant t, as an instant; JNull for
\* null; the date is computed on the calendar fields, the time of day is kept
parseDurationToDate(duration, t) ==
    IF duration = <<"P", "0", "D">> THEN JNull
    ELSE IF ~IsDurationToken(duration) THEN JNull
    ELSE LET value == ParseInt(SubSeq(duration, 2, Len(duration) - 1))
             unit == duration[Len(duration)]
             c == CivilFromDays(t \div TicksPerDay)
             days == CASE unit = "Y" -> DaysFromCivil(c.year - value, c.month, c.day)
                       [] unit = "M" -> DaysFromCivil(c.year, c.month - value, c.day)
                       [] unit = "W" -> DaysFromCivil(c.year, c.month, c.day - 7 * value)
                       [] unit = "D" -> DaysFromCivil(c.year, c.month, c.day - value)
         IN  JNum(TicksPerDay * days + (t % TicksPerDay))

DateRangeValid == [raised |-> FALSE, valid |-> TRUE, error |-> JUndef,
                   earliest_allowed |-> JUndef, limit |-> JUndef]

DateRangeInvalid(error, earliest_allowed, limit) ==
    [raised |-> FALSE, valid |-> FALSE, error |-> S(error),
     earliest_allowed |-> earliest_allowed, limit |-> limit]

\* limit.match is not a function
DateRangeRaised == [raised |-> TRUE, valid |-> FALSE, error |-> S("TypeError"),
                    earliest_allowed |-> JUndef, limit |-> JUndef]

\* a date equal to the earliest allowed one is refused as well
DateRangeWithin_Inclusive(limit, fromDate, t) ==
    IF limit = JStr(<<"P", "0", "D">>) THEN DateRangeValid
    ELSE IF limit.t # "string" THEN DateRangeRaised
    ELSE IF parseDurationToDate(limit.v, t) = JNull THEN DateRangeValid
    ELSE IF DateOfString(fromDate.v) = NaN
    THEN DateRangeInvalid("Invalid date format", JUndef, JUndef)
    ELSE IF DateOfString(fromDate.v) <= parseDurationToDate(limit.v, t).v
    THEN DateRangeInvalid("Date range exceeds plan limit",
                          JStr(DateOnly(parseDurationToDate(limit.v, t).v)), limit)
    ELSE DateRangeValid

\* the steps of validateDateRange once a limit was found
DateRangeWithin(limit, fromDate, t) ==
    IF limit = JStr(<<"P", "0", "D">>) THEN DateRangeValid
    ELSE IF limit.t # "string" THEN DateRangeRaised
    ELSE IF parseDurationToDate(limit.v, t) = JNull THEN DateRangeValid
    ELSE IF DateOfString(fromDate.v) = NaN
    THEN DateRangeInvalid("Invalid date format", JUndef, JUndef)
    ELSE IF DateOfString(fromDate.v) < parseDurationToDate(limit.v, t).v
    THEN DateRangeInvalid("Date range exceeds plan limit",
                          JStr(DateOnly(parseDurationToDate(limit.v, t).v)), limit)
    ELSE DateRangeValid

validateDateRange(pls, endpointPath, fromDate, windowType, t) ==
    IF ~pls.loaded \/ pls.plan = "unknown" THEN DateRangeValid
    ELSE IF ~hasEndpointAccess(pls, endpointPath)
    THEN DateRangeInvalid("Endpoint not accessible on your plan", JUndef, JUndef)
    ELSE IF ~Truthy(fromDate) THEN DateRangeValid
    ELSE IF ~Truthy(getPlanLimit(pls, endpointPath, windowType))
    THEN DateRangeInvalid("No access to this endpoint/window combination", JUndef, JUndef)
    ELSE DateRangeWithin(getPlanLimit(pls, endpointPath, windowType), fromDate, t)

loadPlanLimitsFromCache(limits, statics, apiRateLimit, plan, t) ==
    [loaded |-> TRUE, limits |-> limits, plan |-> plan, statics |-> statics,
     apiRateLimit |-> apiRateLimit, fetched_at |-> JNum(t)]

\* a plan read back from a JSON string field (the code casts it to UserPlan unchecked)
PlanOf(j) == IF j.t = "string" /\ Len(j.v) = 1 THEN j.v[1] ELSE "not-a-plan"

(***************************************************************************)
(* Cache Store (cache/types.ts, cache/storage.ts, cache/summary.ts)        *)
(***************************************************************************)
CACHE_VERSION == 1
CACHE_TTL_DAYS == 7

\* the latest instant a timestamp of the model can name
TimeHorizon == 40

\* date.toISOString()
ToISO(t) == <<"T", ToString(t)>>

\* new Date(value).getTime()
ParseDate(j) ==
    CASE j.t = "number" -> j.v
      [] j.t = "null" -> 0
      [] j.t = "string" ->
            IF /\ Len(j.v) = 2
               /\ j.v[1] = "T"
               /\ \E n \in 0..TimeHorizon : ToString(n) = j.v[2]
            THEN CHOOSE n \in 0..TimeHorizon : ToString(n) = j.v[2]
            ELSE NaN
      [] OTHER -> NaN

\* JSON.parse(JSON.stringify(value)): undefined properties are dropped, undefined items become null
RECURSIVE Jsonify(_)
Jsonify(j) ==
    CASE j.t = "object" ->
            JObj(MapSeq(SelectSeq(j.v, LAMBDA e : e.v.t # "undefined"),
                        LAMBDA e : [k |-> e.k, v |-> Jsonify(e.v)]))
      [] j.t = "array" ->
            JArr(MapSeq(j.v, LAMBDA x : IF x.t = "undefined" THEN JNull ELSE Jsonify(x)))
      [] OTHER -> j

FileMissing == [kind |-> "missing"]
FileGarbage == [kind |-> "garbage"]
FileJson(j) == [kind |-> "json", text |-> Jsonify(j)]

\* isCacheValid without the account-prefix comparison
isCacheValid_AnyAccount(cache, apiUrl, apiKeyPrefix, t) ==
    LET metadata == Prop(cache, <<"metadata">>)
        expiresAt == ParseDate(Prop(metadata, <<"expires_at">>))
    IN  IF Prop(cache, <<"version">>) # JNum(CACHE_VERSION) THEN FALSE
        ELSE IF Prop(metadata, <<"api_url">>) # JStr(apiUrl) THEN FALSE
        ELSE IF expiresAt = NaN \/ expiresAt < t THEN FALSE
        ELSE TRUE

\* a record expiring at the instant of its expiry date already
isCacheValid_ExpiredAtExpiry(cache, apiUrl, apiKeyPrefix, t) ==
    LET metadata == Prop(cache, <<"metadata">>)
        expiresAt == ParseDate(Prop(metadata, <<"expires_at">>))
    IN  IF Prop(cache, <<"version">>) # JNum(CACHE_VERSION) THEN FALSE
        ELSE IF Prop(metadata, <<"api_url">>) # JStr(apiUrl) THEN FALSE
        ELSE IF Prop(metadata, <<"api_key_prefix">>) # JStr(apiKeyPrefix) THEN FALSE
        ELSE IF expiresAt = NaN \/ expiresAt <= t THEN FALSE
        ELSE TRUE

isCacheValid(cache, apiUrl, apiKeyPrefix, t) ==
    LET metadata == Prop(cache, <<"metadata">>)
        expiresAt == ParseDate(Prop(metadata, <<"expires_at">>))
    IN  IF Prop(cache, <<"version">>) # JNum(CACHE_VERSION) THEN FALSE
        ELSE IF Prop(metadata, <<"api_url">>) # JStr(apiUrl) THEN FALSE
        ELSE IF Prop(metadata, <<"api_key_prefix">>) # JStr(apiKeyPrefix) THEN FALSE
        ELSE IF expiresAt = NaN \/ expiresAt < t THEN FALSE
        ELSE TRUE

\* readCache answering only for the service URL the record was written for
readCache_PerUrl(file, apiUrl) ==
    IF file.kind = "missing" THEN JNull
    ELSE IF file.kind = "garbage" THEN JNull
    ELSE IF ~Truthy(file.text) THEN JNull
    ELSE IF \/ ~Truthy(Prop(file.text, <<"version">>))
            \/ ~Truthy(Prop(file.text, <<"metadata">>))
            \/ ~Truthy(Prop(file.text, <<"raw_response">>))
            \/ ~Truthy(Prop(file.text, <<"summary">>))
    THEN JNull
    ELSE IF Prop(Prop(file.text, <<"metadata">>), <<"api_url">>) # JStr(apiUrl) THEN JNull
    ELSE file.text

\* the file is the same one for every apiUrl (getCacheFilePath ignores its argument)
readCache(file, apiUrl) ==
    IF file.kind = "missing" THEN JNull
    ELSE IF file.kind = "garbage" THEN JNull
    ELSE IF ~Truthy(file.text) THEN JNull
    ELSE IF \/ ~Truthy(Prop(file.text, <<"version">>))
            \/ ~Truthy(Prop(file.text, <<"metadata">>))
            \/ ~Truthy(Prop(file.text, <<"raw_response">>))
            \/ ~Truthy(Prop(file.text, <<"summary">>))
    THEN JNull
    ELSE file.text

\* writeCache storing the whole credential where the 8-character prefix belongs
writeCache_WholeKey(apiUrl, apiKey, rawResponse, parsed, summary, plan, t) ==
    [kind |-> "json",
     text |-> Jsonify(JObj(<<
        E("version", JNum(CACHE_VERSION)),
        E("metadata", JObj(<<
            E("api_url", JStr(apiUrl)),
            E("api_key_prefix", JStr(apiKey)),
            E("cached_at", JStr(ToISO(t))),
            E("expires_at", JStr(ToISO(t + CACHE_TTL_DAYS))),
            E("plan", S(plan))>>)),
        E("raw_response", rawResponse),
        E("parsed", parsed),
        E("summary", summary)>>))]

\* the content writeFileSync leaves in the cache file
writeCache(apiUrl, apiKey, rawResponse, parsed, summary, plan, t) ==
    FileJson(JObj(<<
        E("version", JNum(CACHE_VERSION)),
        E("metadata", JObj(<<
            E("api_url", JStr(apiUrl)),
            E("api_key_prefix", JStr(Slice(apiKey, 8))),
            E("cached_at", JStr(ToISO(t))),
            E("expires_at", JStr(ToISO(t + CACHE_TTL_DAYS))),
            E("plan", S(plan))>>)),
        E("raw_response", rawResponse),
        E("parsed", parsed),
        E("summary", summary)>>))

\* x || d
OrElse(j, d) == IF Truthy(j) THEN j ELSE d

\* extractRawResponse without the test of apiEndpoint
extractRawResponse_AnyPayload(apiResponse) ==
    JObj(<<
        E("apiEndpoint", Prop(apiResponse, <<"apiEndpoint">>)),
        E("plan", JObj(<<E("name", OrElse(OptProp(Prop(apiResponse, <<"plan">>), <<"name">>),
                                          S("unknown")))>>)),
        E("apiRateLimit", JObj(<<
            E("token", OrElse(OptProp(Prop(apiResponse, <<"apiRateLimit">>), <<"token">>),
                              JNum(0))),
            E("window", OrElse(OptProp(Prop(apiResponse, <<"apiRateLimit">>), <<"window">>),
                               S("day")))>>))>>)

extractRawResponse(apiResponse) ==
    LET apiEndpoint == Prop(apiResponse, <<"apiEndpoint">>)
        plan == Prop(apiResponse, <<"plan">>)
        apiRateLimit == Prop(apiResponse, <<"apiRateLimit">>)
    IN  IF ~Truthy(apiEndpoint) \/ ~TypeofObject(apiEndpoint) THEN JNull
        ELSE JObj(<<
            E("apiEndpoint", apiEndpoint),
            E("plan", JObj(<<E("name", OrElse(OptProp(plan, <<"name">>), S("unknown")))>>)),
            E("apiRateLimit", JObj(<<
                E("token", OrElse(OptProp(apiRateLimit, <<"token">>), JNum(0))),
                E("window", OrElse(OptProp(apiRateLimit, <<"window">>), S("day")))>>))>>)

\* staticPath.split("/") raises a TypeError on a static entry that is not a string
generateSummaryThrows(statics) == \E i \in 1..Len(statics.v) : statics.v[i].t # "string"

generateSummary(limits, statics) ==
    LET assetsOfLimits == IF Truthy(limits) THEN Entries(limits) ELSE <<>>
        counted == SelectSeq(statics.v, LAMBDA p : Len(Split(p.v)) >= 4)
        assetOfStatic(p) == Split(p.v)[3]
        categoryOfStatic(p) == Split(p.v)[4]
        names == Dedupe(MapSeq(assetsOfLimits, LAMBDA e : e.k) \o MapSeq(counted, assetOfStatic))
        limitsOf(a) == SelectSeq(assetsOfLimits, LAMBDA e : e.k = a)
        staticsOf(a) == SelectSeq(counted, LAMBDA p : assetOfStatic(p) = a)
        metricCount(c) == IF Truthy(c.v) THEN Len(Entries(c.v)) ELSE 0
        endpointCount(a) ==
            SumSeq(Flatten(MapSeq(limitsOf(a),
                                  LAMBDA e : MapSeq(Entries(e.v), metricCount))))
            + Len(staticsOf(a))
        categories(a) ==
            SortSeq(Dedupe(Flatten(MapSeq(limitsOf(a),
                                          LAMBDA e : MapSeq(Entries(e.v), LAMBDA c : c.k)))
                           \o MapSeq(staticsOf(a), categoryOfStatic)),
                    StrLess)
        asset(a) == JObj(<<E("name", JStr(a)), E("endpoint_count", JNum(endpointCount(a))),
                           E("categories", JArr(MapSeq(categories(a), JStr)))>>)
    IN  JObj(<<
            E("total_endpoints", JNum(SumSeq(MapSeq(names, endpointCount)))),
            E("assets", JArr(MapSeq(SortSeq(names, StrLess), asset))),
            E("category_by_asset",
              JObj(MapSeq(names,
                          LAMBDA a : [k |-> a, v |-> JArr(MapSeq(categories(a), JStr))])))>>)

(***************************************************************************)
(* Endpoint Catalog (discovery.ts)                                         *)
(***************************************************************************)
\* addToIndex writing the one-element list over the list the key already has
addToIndex_Overwrite(map, key, endpoint) ==
    IF \E i \in 1..Len(map.v) : map.v[i].k = key
    THEN JObj([i \in 1..Len(map.v) |->
                 IF map.v[i].k = key THEN [k |-> key, v |-> JArr(<<endpoint>>)]
                 ELSE map.v[i]])
    ELSE JObj(Append(map.v, [k |-> key, v |-> JArr(<<endpoint>>)]))

\* a Map is the sequence of its entries in insertion order
addToIndex(map, key, endpoint) ==
    IF \E i \in 1..Len(map.v) : map.v[i].k = key
    THEN JObj([i \in 1..Len(map.v) |->
                 IF map.v[i].k = key
                 THEN [k |-> key, v |-> JArr(Append(map.v[i].v.v, endpoint))]
                 ELSE map.v[i]])
    ELSE JObj(Append(map.v, [k |-> key, v |-> JArr(<<endpoint>>)]))

\* set.add(x), a Set being the sequence of its elements in insertion order
SetAdd(set, x) == IF \E i \in 1..Len(set) : set[i] = x THEN set ELSE Append(set, x)

\* the collections parseEndpoints starts its loop with
NoEndpoints ==
    [endpoints |-> <<>>, assets |-> <<>>, categories |-> <<>>, byAsset |-> JObj(<<>>),
     byCategory |-> JObj(<<>>), byAssetCategory |-> JObj(<<>>)]

\* one pass of the loop of parseEndpoints for a descriptor of 5 segments or more
IndexEndpoint(acc, asset, category, parsed) ==
    [endpoints |-> Append(acc.endpoints, parsed),
     assets |-> SetAdd(acc.assets, asset),
     categories |-> SetAdd(acc.categories, category),
     byAsset |-> addToIndex(acc.byAsset, asset, parsed),
     byCategory |-> addToIndex(acc.byCategory, category, parsed),
     byAssetCategory |-> addToIndex(acc.byAssetCategory, asset \o <<"/">> \o category, parsed)]

ParseEndpoint(acc, ep, parts) ==
    IF Len(parts) < 5 THEN acc
    ELSE IndexEndpoint(acc, parts[3], parts[4],
                       JObj(<<E("path", Prop(ep, <<"path">>)),
                              E("asset", JStr(parts[3])),
                              E("category", JStr(parts[4])),
                              E("metric", JStr(JoinFrom(parts, 5))),
                              E("parameters", Prop(ep, <<"parameters">>)),
                              E("required_parameters", Prop(ep, <<"required_parameters">>))>>))

\* the loop of parseEndpoints from the i-th descriptor on
RECURSIVE ParseFrom(_, _, _)
ParseFrom(rawEndpoints, i, acc) ==
    IF i > Len(rawEndpoints) THEN acc
    ELSE ParseFrom(rawEndpoints, i + 1,
                   ParseEndpoint(acc, rawEndpoints[i],
                                 Split(Prop(rawEndpoints[i], <<"path">>).v)))

\* the catalog parseEndpoints returns for what its loop collected
CatalogOf(acc, t) ==
    JObj(<<E("endpoints", JArr(acc.endpoints)),
           E("assets", JArr(MapSeq(SortSeq(acc.assets, StrLess), JStr))),
           E("categories", JArr(MapSeq(SortSeq(acc.categories, StrLess), JStr))),
           E("byAsset", acc.byAsset),
           E("byCategory", acc.byCategory),
           E("byAssetCategory", acc.byAssetCategory),
           E("fetched_at", JNum(t))>>)

parseEndpoints(rawEndpoints, t) == CatalogOf(ParseFrom(rawEndpoints, 1, NoEndpoints), t)

\* the outcome of fetchDiscoveryEndpoints for one HTTP exchange: success and the
\* catalog it leaves in endpointCatalog
\* a failed fetch leaving no catalog behind
fetchDiscoveryEndpoints_ClearsOnFailure(response, catalog, t) ==
    LET data == response.body
        status == Prop(data, <<"status">>)
        result == Prop(data, <<"result">>)
        failed == [success |-> FALSE, catalog |-> JNull]
    IN  IF response.kind = "network-error" THEN failed
        ELSE IF ~response.ok THEN failed
        ELSE IF response.kind = "bad-json" THEN failed
        ELSE IF ~Truthy(data) \/ ~Truthy(status) THEN failed
        ELSE IF Prop(status, <<"code">>) # JNum(200) \/ ~Truthy(OptProp(result, <<"data">>))
        THEN failed
        ELSE [success |-> TRUE, catalog |-> parseEndpoints(Prop(result, <<"data">>).v, t)]

fetchDiscoveryEndpoints(response, catalog, t) ==
    LET data == response.body
        status == Prop(data, <<"status">>)
        result == Prop(data, <<"result">>)
        failed == [success |-> FALSE, catalog |-> catalog]
    IN  IF response.kind = "network-error" THEN failed
        ELSE IF ~response.ok THEN failed
        ELSE IF response.kind = "bad-json" THEN failed
        \* data.status.code of a body without status raises, which the outer catch reports
        ELSE IF ~Truthy(data) \/ ~Truthy(status) THEN failed
        ELSE IF Prop(status, <<"code">>) # JNum(200) \/ ~Truthy(OptProp(result, <<"data">>))
        THEN failed
        ELSE [success |-> TRUE, catalog |-> parseEndpoints(Prop(result, <<"data">>).v, t)]

\* s.includes(q)
Includes(s, q) == \E i \in 0..(Len(s) - Len(q)) : SubSeq(s, i + 1, i + Len(q)) = q

LowerCase(s) == MapSeq(s, ToLower)

\* the asset-only lookup answers before the composite one is tried
getBaseEndpoints_AssetFirst(catalog, asset, category) ==
    IF Truthy(asset)
    THEN Coalesce(Prop(Prop(catalog, <<"byAsset">>), asset.v), JArr(<<>>)).v
    ELSE IF Truthy(category)
    THEN Coalesce(Prop(Prop(catalog, <<"byCategory">>), category.v), JArr(<<>>)).v
    ELSE Prop(catalog, <<"endpoints">>).v

getBaseEndpoints(catalog, asset, category) ==
    IF Truthy(asset) /\ Truthy(category)
    THEN Coalesce(Prop(Prop(catalog, <<"byAssetCategory">>),
                       asset.v \o <<"/">> \o category.v), JArr(<<>>)).v
    ELSE IF Truthy(asset)
    THEN Coalesce(Prop(Prop(catalog, <<"byAsset">>), asset.v), JArr(<<>>)).v
    ELSE IF Truthy(category)
    THEN Coalesce(Prop(Prop(catalog, <<"byCategory">>), category.v), JArr(<<>>)).v
    ELSE Prop(catalog, <<"endpoints">>).v

\* the endpoints found, as a sequence
searchEndpoints(catalog, options) ==
    IF ~Truthy(catalog) THEN <<>>
    ELSE LET results == getBaseEndpoints(catalog, Prop(options, <<"asset">>),
                                         Prop(options, <<"category">>))
             query == Prop(options, <<"query">>)
         IN  IF ~Truthy(query) THEN results
             ELSE SelectSeq(results,
                     LAMBDA ep :
                        \/ Includes(LowerCase(Prop(ep, <<"path">>).v), LowerCase(query.v))
                        \/ Includes(LowerCase(Prop(ep, <<"metric">>).v), LowerCase(query.v)))

\* the errors pushed by the loop over the required parameters
MissingErrors(endpoint, params) ==
    LET required == Prop(endpoint, <<"required_parameters">>).v
        missing == SelectSeq(required,
                             LAMBDA r : Prop(params, r.v).t \in {"undefined", "null"})
    IN  [i \in 1..Len(missing) |-> <<"Missing required parameter", missing[i].v>>]

\* a supplied parameter of any name is checked against the allowed values
InvalidErrors_StrictNames(endpoint, params) ==
    LET invalid == SelectSeq(params.v,
                      LAMBDA e :
                         /\ e.v.t \notin {"undefined", "null"}
                         /\ e.v.t = "string"
                         /\ \A i \in 1..Len(Coalesce(Prop(Prop(endpoint, <<"parameters">>), e.k),
                                                     JArr(<<>>)).v) :
                               Prop(Prop(endpoint, <<"parameters">>), e.k).v[i] # e.v)
    IN  [i \in 1..Len(invalid) |-> <<"Invalid value", invalid[i].k, invalid[i].v.v>>]

\* the errors pushed by the loop over Object.entries(params)
InvalidErrors(endpoint, params) ==
    LET invalid == SelectSeq(params.v,
                      LAMBDA e :
                         /\ e.v.t \notin {"undefined", "null"}
                         /\ Truthy(Prop(Prop(endpoint, <<"parameters">>), e.k))
                         /\ e.v.t = "string"
                         /\ \A i \in 1..Len(Prop(Prop(endpoint, <<"parameters">>), e.k).v) :
                               Prop(Prop(endpoint, <<"parameters">>), e.k).v[i] # e.v)
    IN  [i \in 1..Len(invalid) |-> <<"Invalid value", invalid[i].k, invalid[i].v.v>>]

validateEndpointParams(endpoint, params) ==
    LET errors == MissingErrors(endpoint, params) \o InvalidErrors(endpoint, params)
    IN  [valid |-> errors = <<>>, errors |-> errors]

\* what fetchPlanLimits returns and leaves in planLimitsState on a failure
PlanLimitsFailed(pls) ==
    [success |-> FALSE, rawResponse |-> JUndef, parsed |-> JUndef, plan |-> "unknown",
     state |-> pls]

\* ... on a 403 or a 500
PlanLimitsRefused(t) ==
    [success |-> TRUE, rawResponse |-> JUndef,
     parsed |-> JObj(<<E("limits", JNull), E("statics", JArr(<<>>)), E("apiRateLimit", JNull)>>),
     plan |-> "basic",
     state |-> [PLAN_DEFAULT_STATE EXCEPT !.loaded = TRUE, !.plan = "basic",
                                          !.fetched_at = JNum(t)]]

\* ... on a payload, once it is parsed and the plan is resolved
PlanLimitsLoaded(data, parsed, plan, t) ==
    [success |-> TRUE, rawResponse |-> data,
     parsed |-> JObj(<<E("limits", parsed.limits), E("statics", parsed.statics),
                       E("apiRateLimit", parsed.apiRateLimit)>>),
     plan |-> plan,
     state |-> [loaded |-> TRUE, limits |-> parsed.limits, plan |-> plan,
                statics |-> parsed.statics, apiRateLimit |-> parsed.apiRateLimit,
                fetched_at |-> JNum(t)]]

\* the heuristic is preferred whenever there is a Permission Table
ResolvePlan_HeuristicFirst(parsed) ==
    IF Truthy(parsed.limits) THEN detectPlanFromLimits(parsed.limits)
    ELSE IF Truthy(parsed.planName) THEN normalizePlanName(parsed.planName.v)
    ELSE "basic"

\* parsed.planName ? normalizePlanName(parsed.planName) : detectPlanFromLimits(parsed.limits)
ResolvePlan(parsed) ==
    IF Truthy(parsed.planName) THEN normalizePlanName(parsed.planName.v)
    ELSE detectPlanFromLimits(parsed.limits)

PlanLimitsParsed(data, parsed, t) == PlanLimitsLoaded(data, parsed, ResolvePlan(parsed), t)

\* fetchPlanLimits treating 403 and 500 like every other non-OK status
fetchPlanLimits_HardRefusal(response, pls, t) ==
    IF response.kind = "network-error" THEN PlanLimitsFailed(pls)
    ELSE IF ~response.ok THEN PlanLimitsFailed(pls)
    ELSE IF response.kind = "bad-json" THEN PlanLimitsFailed(pls)
    ELSE PlanLimitsParsed(response.body, parseApiResponse(response.body), t)

\* the outcome of fetchPlanLimits for one HTTP exchange: its result and the
\* planLimitsState it leaves
fetchPlanLimits(response, pls, t) ==
    IF response.kind = "network-error" THEN PlanLimitsFailed(pls)
    ELSE IF response.status = 403 \/ response.status = 500 THEN PlanLimitsRefused(t)
    ELSE IF ~response.ok THEN PlanLimitsFailed(pls)
    ELSE IF response.kind = "bad-json" THEN PlanLimitsFailed(pls)
    ELSE PlanLimitsParsed(response.body, parseApiResponse(response.body), t)

(***************************************************************************)
(* Inputs: credentials, service URLs, paths, HTTP exchanges, files         *)
(***************************************************************************)
KeyAlice == <<"k", "e", "y", "-", "a", "l", "i", "c", "e">>
\* another credential with the same first 8 characters
KeyAlicf == <<"k", "e", "y", "-", "a", "l", "i", "c", "f">>
\* a credential shorter than the 8-character prefix, of another account
KeyShort == <<"a", "b", "c">>
ApiKeys == {KeyAlice, KeyAlicf, KeyShort}

UrlProd == <<"https:", "/", "/", "api.cryptoquant.com", "/", "v1">>
UrlStage == <<"https:", "/", "/", "stage.cryptoquant.com", "/", "v1">>
ApiUrls == {UrlProd, UrlStage}

PathPrice == <<"/", "v1", "/", "btc", "/", "market-data", "/", "price">>
PathMvrv == <<"/", "v1", "/", "btc", "/", "market-data", "/", "mvrv">>
\* a metric that itself contains a slash
PathFlowIn == <<"/", "v1", "/", "eth", "/", "network-data", "/", "flow", "/", "in">>
PathEntity == <<"/", "v1", "/", "btc", "/", "status", "/", "entity-list">>
\* fewer than 5 segments
PathPing == <<"/", "v1", "/", "ping">>
PathEthPrice == <<"/", "v1", "/", "eth", "/", "market-data", "/", "price">>
Paths == {PathPrice, PathMvrv, PathFlowIn, PathEntity, PathPing, PathEthPrice}

\* a duration token, "P" quantity unit
Tok(n, u) == JStr(<<"P", n, u>>)

BtcPriceOneDay ==
    E("btc", JObj(<<E("market-data", JObj(<<E("price", JObj(<<E("day", Tok("1", "D"))>>))>>))>>))

\* an explicit tier name in upper case; one metric without any valid window
BodyProfessional ==
    JObj(<<
        E("plan", JObj(<<E("name", S("PROFESSIONAL"))>>)),
        E("apiEndpoint", JObj(<<
            E("btc", JObj(<<E("market-data", JObj(<<
                E("price", JObj(<<E("day", Tok("3", "Y")), E("hour", Tok("0", "D"))>>)),
                E("mvrv", JObj(<<E("limit", JNum(1000)), E("day", Tok("3", "Y"))>>)),
                E("nvt", JObj(<<E("day", S("soon"))>>))>>))>>)),
            E("statics", JArr(<<JStr(PathEntity)>>))>>)),
        E("apiRateLimit", JObj(<<E("token", JNum(100)), E("window", S("day"))>>))>>)

\* no tier name: the heuristic decides (every window is P1D)
BodyHeuristicBasic ==
    JObj(<<
        E("apiEndpoint", JObj(<<
            BtcPriceOneDay,
            E("statics", JArr(<<JStr(PathEntity), JStr(PathPing)>>))>>))>>)

BodyAdvanced ==
    JObj(<<
        E("plan", JObj(<<E("name", S("advanced"))>>)),
        E("apiEndpoint", JObj(<<
            E("eth", JObj(<<E("network-data", JObj(<<
                [k |-> <<"flow", "/", "in">>, v |-> JObj(<<E("day", Tok("1", "Y"))>>)]>>))>>)),
            BtcPriceOneDay>>))>>)

\* no asset at all: the Permission Table is null, the Static List is not empty
BodyStaticsOnly ==
    JObj(<<E("apiEndpoint", JObj(<<E("statics", JArr(<<JStr(PathEntity)>>))>>))>>)

\* no apiEndpoint field
BodyPremiumNoEndpoint == JObj(<<E("plan", JObj(<<E("name", S("Premium"))>>))>>)

\* a tier name outside the five known tiers
BodyUnknownTier ==
    JObj(<<E("plan", JObj(<<E("name", S("ENTERPRISE"))>>)),
           E("apiEndpoint", JObj(<<BtcPriceOneDay>>))>>)

PlanBodies ==
    {BodyProfessional, BodyHeuristicBasic, BodyAdvanced, BodyStaticsOnly,
     BodyPremiumNoEndpoint, BodyUnknownTier, JNull}

\* HTTP exchanges, as the fetch functions see them
NetworkError == [kind |-> "network-error", status |-> 0, ok |-> FALSE, body |-> JUndef]
Http(status) == [kind |-> "http", status |-> status, ok |-> FALSE, body |-> JUndef]
BadJson == [kind |-> "bad-json", status |-> 200, ok |-> TRUE, body |-> JUndef]
Json(body) == [kind |-> "json", status |-> 200, ok |-> TRUE, body |-> body]

PlanResponses ==
    {NetworkError, Http(403), Http(500), Http(401), BadJson} \cup {Json(b) : b \in PlanBodies}

Descriptor(path, parameters, required) ==
    JObj(<<E("path", JStr(path)), E("parameters", JObj(parameters)),
           E("required_parameters", JArr(required))>>)

Envelope(code, descriptors) ==
    JObj(<<E("status", JObj(<<E("code", JNum(code)), E("message", S("message"))>>)),
           E("result", JObj(<<E("data", JArr(descriptors))>>))>>)

DiscoveryBtc ==
    Envelope(200, <<
        Descriptor(PathPrice, <<E("window", JArr(<<S("day"), S("hour")>>))>>, <<S("window")>>),
        Descriptor(PathEntity, <<>>, <<>>),
        Descriptor(PathPing, <<>>, <<>>)>>)

DiscoveryAll ==
    Envelope(200, <<
        Descriptor(PathFlowIn, <<E("window", JArr(<<S("day")>>))>>, <<>>),
        Descriptor(PathPrice, <<E("window", JArr(<<S("day"), S("hour")>>))>>, <<S("window")>>),
        Descriptor(PathMvrv, <<E("window", JArr(<<S("day")>>))>>, <<S("window")>>)>>)

DiscoveryResponses ==
    {NetworkError, Http(401), BadJson, Json(Envelope(401, <<>>)), Json(DiscoveryBtc),
     Json(DiscoveryAll)}

\* a record of the shape writeCache builds, for a payload as fetchPlanLimits returned it
CacheRecordOf(version, apiUrl, apiKeyPrefix, cachedAt, expiresAt, r) ==
    JObj(<<
        E("version", JNum(version)),
        E("metadata", JObj(<<
            E("api_url", JStr(apiUrl)),
            E("api_key_prefix", JStr(apiKeyPrefix)),
            E("cached_at", cachedAt),
            E("expires_at", expiresAt),
            E("plan", S(r.plan))>>)),
        E("raw_response", extractRawResponse(r.rawResponse)),
        E("parsed", r.parsed),
        E("summary", generateSummary(Prop(r.parsed, <<"limits">>),
                                     Prop(r.parsed, <<"statics">>)))>>)

CacheRecord(version, apiUrl, apiKeyPrefix, cachedAt, expiresAt, body) ==
    CacheRecordOf(version, apiUrl, apiKeyPrefix, cachedAt, expiresAt,
                  fetchPlanLimits(Json(body), PLAN_DEFAULT_STATE, 0))

\* what the cache file can hold when the process starts: nothing, bytes that are
\* no JSON, a record of another format version, a record whose expiry is no date
InitialFiles ==
    {FileMissing, FileGarbage,
     FileJson(CacheRecord(2, UrlProd, Slice(KeyAlice, 8), JStr(ToISO(0)),
                          JStr(ToISO(CACHE_TTL_DAYS)), BodyAdvanced)),
     FileJson(CacheRecord(CACHE_VERSION, UrlProd, Slice(KeyAlice, 8), JStr(ToISO(0)),
                          S("never"), BodyAdvanced))}

\* outcomes of the file-system calls of writeCache
FsOutcomes == {"ok", "write-failed", "write-truncated", "chmod-failed"}

(***************************************************************************)
(* Session/Permission Coordinator (permissions.ts)                         *)
(***************************************************************************)
\* the clock stops here
MaxTime == 8
\* the clock advances to the expiry of a record written at 0, or just past it
TickSteps == {CACHE_TTL_DAYS, CACHE_TTL_DAYS + 1}
\* initializePermissions is started at most this often
MaxInits == 2

AllCalls == {"c1", "c2"}
\* the calls of the one-call-at-a-time specification
SeqCalls == {"c1"}

PERMISSION_DEFAULT_STATE ==
    [authenticated |-> FALSE, api_key |-> JNull, cached_at |-> JNull, plan |-> "unknown",
     plan_limits_loaded |-> FALSE, from_cache |-> FALSE]

BlankLoc == [apiKey |-> <<>>, apiUrl |-> <<>>, cache |-> JNull]

\* no HTTP exchange
NoResponse == [kind |-> "none", status |-> 0, ok |-> FALSE, body |-> JUndef]

Idle == \A c \in AllCalls : pc[c] = "idle"

Init ==
    /\ now = 0
    /\ cacheFile \in InitialFiles
    /\ planLimitsState = PLAN_DEFAULT_STATE
    /\ permissionState = PERMISSION_DEFAULT_STATE
    /\ cachedDiscovery = JNull
    /\ endpointCatalog = JNull
    /\ pc = [c \in AllCalls |-> "idle"]
    /\ loc = [c \in AllCalls |-> BlankLoc]
    /\ ret = [op |-> "boot"]
    /\ inits = 0

\* getCacheAgeDays and getCacheStatus(cache, true)
getCacheStatus(cache, t) ==
    LET cachedAt == ParseDate(Prop(Prop(cache, <<"metadata">>), <<"cached_at">>))
    IN  JStr(<<"cached (", IF cachedAt = NaN THEN "NaN" ELSE ToString(t - cachedAt), "d old)">>)

\* a session marked authenticated that holds no credential
Authenticated_WithoutKey(apiKey, plan, loaded, fromCache, t) ==
    [authenticated |-> TRUE, api_key |-> JNull, cached_at |-> JNum(t), plan |-> plan,
     plan_limits_loaded |-> loaded, from_cache |-> fromCache]

\* the permissionState a successful initializePermissions assigns
Authenticated(apiKey, plan, loaded, fromCache, t) ==
    [authenticated |-> TRUE, api_key |-> JStr(apiKey), cached_at |-> JNum(t), plan |-> plan,
     plan_limits_loaded |-> loaded, from_cache |-> fromCache]

\* what a returning initializePermissions call leaves in ret
Returned(c, path, discovery, permission, fs, result) ==
    [op |-> "initialize", raised |-> FALSE, call |-> c, path |-> path,
     apiKey |-> loc[c].apiKey, apiUrl |-> loc[c].apiUrl, cache |-> loc[c].cache,
     discovery |-> discovery, permission |-> permission, fs |-> fs, result |-> result]

Failure ==
    [success |-> FALSE, from_cache |-> FALSE, cache_status |-> S("none"), summary |-> JUndef]

\* initializePermissions up to its first await: the cache lookup
InitializeStart(c, apiKey, apiUrl) ==
    LET cache == readCache(cacheFile, apiUrl)
        valid == Truthy(cache) /\ isCacheValid(cache, apiUrl, Slice(apiKey, 8), now)
        parsed == Prop(cache, <<"parsed">>)
        metadata == Prop(cache, <<"metadata">>)
        seen == [call |-> c, apiKey |-> apiKey, apiUrl |-> apiUrl, cache |-> cache,
                 valid |-> valid, at |-> now]
    IN  /\ pc[c] = "idle"
        /\ inits < MaxInits
        /\ inits' = inits + 1
        /\ IF valid /\ ~Truthy(parsed)
           THEN \* cache.parsed.limits of a record without parsed raises outside the try
                /\ ret' = [op |-> "initialize", raised |-> TRUE] @@ seen
                /\ UNCHANGED <<planLimitsState, pc, loc>>
           ELSE IF valid
           THEN /\ planLimitsState' =
                       loadPlanLimitsFromCache(Prop(parsed, <<"limits">>),
                                               Prop(parsed, <<"statics">>),
                                               Prop(parsed, <<"apiRateLimit">>),
                                               PlanOf(Prop(metadata, <<"plan">>)), now)
                /\ pc' = [pc EXCEPT ![c] = "hit-await-discovery"]
                /\ loc' = [loc EXCEPT ![c] = [apiKey |-> apiKey, apiUrl |-> apiUrl,
                                              cache |-> cache]]
                /\ ret' = [op |-> "await"] @@ seen
           ELSE /\ pc' = [pc EXCEPT ![c] = "miss-await-discovery"]
                /\ loc' = [loc EXCEPT ![c] = [apiKey |-> apiKey, apiUrl |-> apiUrl,
                                              cache |-> JNull]]
                /\ ret' = [op |-> "await"] @@ seen
                /\ UNCHANGED planLimitsState
        /\ UNCHANGED <<now, cacheFile, permissionState, cachedDiscovery, endpointCatalog>>

\* the cache-hit branch giving up when the catalog fetch fails
HitDiscoveryResponse_CatalogFatal(c, response) ==
    LET d == fetchDiscoveryEndpoints(response, endpointCatalog, now)
        cache == loc[c].cache
        plan == PlanOf(Prop(Prop(cache, <<"metadata">>), <<"plan">>))
    IN  /\ pc[c] = "hit-await-discovery"
        /\ endpointCatalog' = d.catalog
        /\ IF d.success
           THEN /\ cachedDiscovery' = cache
                /\ permissionState' = Authenticated(loc[c].apiKey, plan, TRUE, TRUE, now)
                /\ ret' = Returned(c, "hit", response, NoResponse, "ok",
                                   [success |-> TRUE, from_cache |-> TRUE,
                                    cache_status |-> getCacheStatus(cache, now),
                                    summary |-> Prop(cache, <<"summary">>)])
           ELSE /\ ret' = Returned(c, "hit", response, NoResponse, "ok", Failure)
                /\ UNCHANGED <<cachedDiscovery, permissionState>>
        /\ pc' = [pc EXCEPT ![c] = "idle"]
        /\ loc' = [loc EXCEPT ![c] = BlankLoc]
        /\ UNCHANGED <<now, cacheFile, planLimitsState, inits>>

\* the cache-hit branch after its await of fetchDiscoveryEndpoints, to its return
HitDiscoveryResponse(c, response) ==
    LET d == fetchDiscoveryEndpoints(response, endpointCatalog, now)
        cache == loc[c].cache
        plan == PlanOf(Prop(Prop(cache, <<"metadata">>), <<"plan">>))
    IN  /\ pc[c] = "hit-await-discovery"
        /\ endpointCatalog' = d.catalog
        /\ cachedDiscovery' = cache
        /\ permissionState' = Authenticated(loc[c].apiKey, plan, TRUE, TRUE, now)
        /\ pc' = [pc EXCEPT ![c] = "idle"]
        /\ loc' = [loc EXCEPT ![c] = BlankLoc]
        /\ ret' = Returned(c, "hit", response, NoResponse, "ok",
                           [success |-> TRUE, from_cache |-> TRUE,
                            cache_status |-> getCacheStatus(cache, now),
                            summary |-> Prop(cache, <<"summary">>)])
        /\ UNCHANGED <<now, cacheFile, planLimitsState, inits>>

\* the fresh-fetch branch logging the session out when the catalog fetch fails
MissDiscoveryResponse_LogsOut(c, response) ==
    LET d == fetchDiscoveryEndpoints(response, endpointCatalog, now)
    IN  /\ pc[c] = "miss-await-discovery"
        /\ endpointCatalog' = d.catalog
        /\ IF d.success
           THEN /\ pc' = [pc EXCEPT ![c] = "await-plan"]
                /\ ret' = [op |-> "await", call |-> c, discovery |-> response]
                /\ UNCHANGED <<loc, permissionState>>
           ELSE /\ pc' = [pc EXCEPT ![c] = "idle"]
                /\ loc' = [loc EXCEPT ![c] = BlankLoc]
                /\ permissionState' = PERMISSION_DEFAULT_STATE
                /\ ret' = Returned(c, "miss", response, NoResponse, "ok", Failure)
        /\ UNCHANGED <<now, cacheFile, planLimitsState, cachedDiscovery, inits>>

\* the fresh-fetch branch after its await of fetchDiscoveryEndpoints
MissDiscoveryResponse(c, response) ==
    LET d == fetchDiscoveryEndpoints(response, endpointCatalog, now)
    IN  /\ pc[c] = "miss-await-discovery"
        /\ endpointCatalog' = d.catalog
        /\ IF d.success
           THEN /\ pc' = [pc EXCEPT ![c] = "await-plan"]
                /\ ret' = [op |-> "await", call |-> c, discovery |-> response]
                /\ UNCHANGED loc
           ELSE /\ pc' = [pc EXCEPT ![c] = "idle"]
                /\ loc' = [loc EXCEPT ![c] = BlankLoc]
                /\ ret' = Returned(c, "miss", response, NoResponse, "ok", Failure)
        /\ UNCHANGED <<now, cacheFile, planLimitsState, permissionState, cachedDiscovery,
                       inits>>

\* the fresh-fetch branch giving up when the permission fetch fails
PlanResponse_FetchFatal(c, response, fs) ==
    \E r \in {fetchPlanLimits(response, planLimitsState, now)} :
    \E rawResponse \in {extractRawResponse(r.rawResponse)} :
        LET caching == /\ r.success /\ Truthy(r.rawResponse) /\ Truthy(r.parsed)
                       /\ Truthy(rawResponse)
            summaryRaises == generateSummaryThrows(Prop(r.parsed, <<"statics">>))
            session == Authenticated(loc[c].apiKey, r.state.plan, r.state.loaded, FALSE, now)
        IN  /\ pc[c] = "await-plan"
            /\ planLimitsState' = r.state
            /\ pc' = [pc EXCEPT ![c] = "idle"]
            /\ loc' = [loc EXCEPT ![c] = BlankLoc]
            /\ UNCHANGED <<now, endpointCatalog, inits>>
            /\ IF ~caching
               THEN /\ fs = "ok"
                    /\ IF r.success
                       THEN /\ permissionState' = session
                            /\ ret' = Returned(c, "miss", NoResponse, response, fs,
                                               [success |-> TRUE, from_cache |-> FALSE,
                                                cache_status |-> S("none"),
                                                summary |-> JUndef])
                       ELSE /\ ret' = Returned(c, "miss", NoResponse, response, fs, Failure)
                            /\ UNCHANGED permissionState
                    /\ UNCHANGED <<cacheFile, cachedDiscovery>>
               ELSE IF summaryRaises
               THEN \* the catch of initializePermissions
                    /\ fs = "ok"
                    /\ ret' = Returned(c, "miss", NoResponse, response, fs, Failure)
                    /\ UNCHANGED <<cacheFile, permissionState, cachedDiscovery>>
               ELSE \E summary \in {generateSummary(Prop(r.parsed, <<"limits">>),
                                                    Prop(r.parsed, <<"statics">>))} :
                    /\ cacheFile' =
                          IF fs = "write-failed" THEN cacheFile
                          ELSE IF fs = "write-truncated" THEN FileGarbage
                          ELSE writeCache(loc[c].apiUrl, loc[c].apiKey, rawResponse,
                                          r.parsed, summary, r.plan, now)
                    /\ IF fs # "ok"
                       THEN \* the catch of initializePermissions
                            /\ ret' = Returned(c, "miss", NoResponse, response, fs, Failure)
                            /\ UNCHANGED <<permissionState, cachedDiscovery>>
                       ELSE /\ cachedDiscovery' = readCache(cacheFile', loc[c].apiUrl)
                            /\ permissionState' = session
                            /\ ret' = Returned(c, "miss", NoResponse, response, fs,
                                               [success |-> TRUE, from_cache |-> FALSE,
                                                cache_status |-> S("fresh"),
                                                summary |-> summary])

\* the fresh-fetch branch after its await of fetchPlanLimits, to its return
PlanResponse(c, response, fs) ==
    \E r \in {fetchPlanLimits(response, planLimitsState, now)} :
    \E rawResponse \in {extractRawResponse(r.rawResponse)} :
        LET caching == /\ r.success /\ Truthy(r.rawResponse) /\ Truthy(r.parsed)
                       /\ Truthy(rawResponse)
            summaryRaises == generateSummaryThrows(Prop(r.parsed, <<"statics">>))
            session == Authenticated(loc[c].apiKey, r.state.plan, r.state.loaded, FALSE, now)
        IN  /\ pc[c] = "await-plan"
            /\ planLimitsState' = r.state
            /\ pc' = [pc EXCEPT ![c] = "idle"]
            /\ loc' = [loc EXCEPT ![c] = BlankLoc]
            /\ UNCHANGED <<now, endpointCatalog, inits>>
            /\ IF ~caching
               THEN \* "Cache write failed but auth succeeded"
                    /\ fs = "ok"
                    /\ permissionState' = session
                    /\ ret' = Returned(c, "miss", NoResponse, response, fs,
                                       [success |-> TRUE, from_cache |-> FALSE,
                                        cache_status |-> S("none"), summary |-> JUndef])
                    /\ UNCHANGED <<cacheFile, cachedDiscovery>>
               ELSE IF summaryRaises
               THEN \* the catch of initializePermissions
                    /\ fs = "ok"
                    /\ ret' = Returned(c, "miss", NoResponse, response, fs, Failure)
                    /\ UNCHANGED <<cacheFile, permissionState, cachedDiscovery>>
               ELSE \E summary \in {generateSummary(Prop(r.parsed, <<"limits">>),
                                                    Prop(r.parsed, <<"statics">>))} :
                    /\ cacheFile' =
                          IF fs = "write-failed" THEN cacheFile
                          ELSE IF fs = "write-truncated" THEN FileGarbage
                          ELSE writeCache(loc[c].apiUrl, loc[c].apiKey, rawResponse,
                                          r.parsed, summary, r.plan, now)
                    /\ IF fs # "ok"
                       THEN \* the catch of initializePermissions
                            /\ ret' = Returned(c, "miss", NoResponse, response, fs, Failure)
                            /\ UNCHANGED <<permissionState, cachedDiscovery>>
                       ELSE /\ cachedDiscovery' = readCache(cacheFile', loc[c].apiUrl)
                            /\ permissionState' = session
                            /\ ret' = Returned(c, "miss", NoResponse, response, fs,
                                               [success |-> TRUE, from_cache |-> FALSE,
                                                cache_status |-> S("fresh"),
                                                summary |-> summary])

setGuestMode ==
    /\ permissionState' = [PERMISSION_DEFAULT_STATE EXCEPT !.cached_at = JNum(now),
                                                           !.from_cache = FALSE]
    /\ ret' = [op |-> "setGuestMode"]
    /\ UNCHANGED <<now, cacheFile, planLimitsState, cachedDiscovery, endpointCatalog, pc, loc,
                   inits>>

\* resetPermissions without its call of resetPlanLimits
resetPermissions_KeepsPlanLimits ==
    /\ permissionState' = PERMISSION_DEFAULT_STATE
    /\ cachedDiscovery' = JNull
    /\ endpointCatalog' = JNull
    /\ ret' = [op |-> "resetPermissions"]
    /\ UNCHANGED <<now, cacheFile, planLimitsState, pc, loc, inits>>

\* with resetDiscovery and resetPlanLimits
resetPermissions ==
    /\ permissionState' = PERMISSION_DEFAULT_STATE
    /\ cachedDiscovery' = JNull
    /\ endpointCatalog' = JNull
    /\ planLimitsState' = PLAN_DEFAULT_STATE
    /\ ret' = [op |-> "resetPermissions"]
    /\ UNCHANGED <<now, cacheFile, pc, loc, inits>>

\* invalidateCache and clearAllCaches delete the same file
clearDiscoveryCache ==
    /\ cacheFile' = FileMissing
    /\ cachedDiscovery' = JNull
    /\ ret' = [op |-> "clearDiscoveryCache"]
    /\ UNCHANGED <<now, planLimitsState, permissionState, endpointCatalog, pc, loc, inits>>

\* time passes
Tick(d) ==
    /\ now + d <= MaxTime
    /\ now' = now + d
    /\ ret' = [op |-> "tick"]
    /\ UNCHANGED <<cacheFile, planLimitsState, permissionState, cachedDiscovery,
                   endpointCatalog, pc, loc, inits>>

\* the credentials and service URLs initializePermissions is called with
Logins == {<<KeyAlice, UrlProd>>, <<KeyShort, UrlProd>>, <<KeyAlice, UrlStage>>}

SessionDiscoveryResponses ==
    {NetworkError, Http(401), BadJson, Json(Envelope(401, <<>>)), Json(DiscoveryBtc)}

SessionPlanResponses ==
    {NetworkError, Http(403), Http(500), Http(401), BadJson, Json(BodyProfessional),
     Json(BodyHeuristicBasic), Json(BodyPremiumNoEndpoint), Json(JNull)}

\* one operation at a time: a call starts, and the session is reset, only while
\* no initializePermissions call is suspended
Next ==
    \/ \E c \in SeqCalls, l \in Logins : Idle /\ InitializeStart(c, l[1], l[2])
    \/ \E c \in SeqCalls, r \in SessionDiscoveryResponses : HitDiscoveryResponse(c, r)
    \/ \E c \in SeqCalls, r \in SessionDiscoveryResponses : MissDiscoveryResponse(c, r)
    \/ \E c \in SeqCalls, r \in SessionPlanResponses, fs \in FsOutcomes : PlanResponse(c, r, fs)
    \/ Idle /\ setGuestMode
    \/ Idle /\ resetPermissions
    \/ Idle /\ clearDiscoveryCache
    \/ \E d \in TickSteps : Tick(d)

Spec == Init /\ [][Next]_vars

(***************************************************************************)
(* The coordinator as the tool handlers drive it: every tool call runs its *)
(* handler when the request arrives, so a call starts, and the session is  *)
(* reset, also while an initializePermissions call is suspended at an      *)
(* await.                                                                  *)
(***************************************************************************)
ConcurrentLogins == {<<KeyAlice, UrlProd>>, <<KeyShort, UrlProd>>}

ConcurrentDiscoveryResponses == {NetworkError, Json(DiscoveryBtc)}

ConcurrentPlanResponses == {Http(403), Json(BodyProfessional)}

ConcurrentFs == {"ok"}

InitConcurrent ==
    /\ now = 0
    /\ cacheFile = FileMissing
    /\ planLimitsState = PLAN_DEFAULT_STATE
    /\ permissionState = PERMISSION_DEFAULT_STATE
    /\ cachedDiscovery = JNull
    /\ endpointCatalog = JNull
    /\ pc = [c \in AllCalls |-> "idle"]
    /\ loc = [c \in AllCalls |-> BlankLoc]
    /\ ret = [op |-> "boot"]
    /\ inits = 0

NextConcurrent ==
    \/ \E c \in AllCalls, l \in ConcurrentLogins : InitializeStart(c, l[1], l[2])
    \/ \E c \in AllCalls, r \in ConcurrentDiscoveryResponses : HitDiscoveryResponse(c, r)
    \/ \E c \in AllCalls, r \in ConcurrentDiscoveryResponses : MissDiscoveryResponse(c, r)
    \/ \E c \in AllCalls, r \in ConcurrentPlanResponses, fs \in ConcurrentFs :
          PlanResponse(c, r, fs)
    \/ setGuestMode
    \/ resetPermissions
    \/ clearDiscoveryCache

SpecConcurrent == InitConcurrent /\ [][NextConcurrent]_vars

(***************************************************************************)
(* The Plan-Limits Resolver on its own: its state is loaded by             *)
(* fetchPlanLimits or loadPlanLimitsFromCache, cleared by resetPlanLimits, *)
(* and queried by hasEndpointAccess.                                       *)
(***************************************************************************)
\* the permission payloads that initializePermissions caches
CachedBodies ==
    {BodyProfessional, BodyHeuristicBasic, BodyAdvanced, BodyStaticsOnly, BodyUnknownTier}

FetchPlanLimits(response) ==
    \E r \in {fetchPlanLimits(response, planLimitsState, now)} :
        /\ planLimitsState' = r.state
        /\ ret' = [op |-> "fetchPlanLimits", permission |-> response, success |-> r.success]
        /\ UNCHANGED <<now, cacheFile, permissionState, cachedDiscovery, endpointCatalog, pc,
                       loc, inits>>

\* loadPlanLimitsFromCache with the fragments and the tier of a record that
\* writeCache wrote for the payload
LoadPlanLimitsFromCache(body) ==
    \E cache \in {Jsonify(CacheRecord(CACHE_VERSION, UrlProd, Slice(KeyAlice, 8),
                                      JStr(ToISO(0)), JStr(ToISO(CACHE_TTL_DAYS)), body))} :
    \E parsed \in {Prop(cache, <<"parsed">>)} :
        /\ planLimitsState' =
               loadPlanLimitsFromCache(Prop(parsed, <<"limits">>), Prop(parsed, <<"statics">>),
                                       Prop(parsed, <<"apiRateLimit">>),
                                       PlanOf(Prop(Prop(cache, <<"metadata">>), <<"plan">>)),
                                       now)
        /\ ret' = [op |-> "loadPlanLimitsFromCache", body |-> body]
        /\ UNCHANGED <<now, cacheFile, permissionState, cachedDiscovery, endpointCatalog, pc,
                       loc, inits>>

resetPlanLimits ==
    /\ planLimitsState' = PLAN_DEFAULT_STATE
    /\ ret' = [op |-> "resetPlanLimits"]
    /\ UNCHANGED <<now, cacheFile, permissionState, cachedDiscovery, endpointCatalog, pc, loc,
                   inits>>

\* a caller asks hasEndpointAccess(endpointPath)
\* getRequiredPlan naming the basic tier where the path has no entry
getRequiredPlan_BasicDefault(pls, endpointPath) ==
    IF ~Truthy(pls.limits) THEN "basic"
    ELSE LET limit == getPlanLimit(pls, endpointPath, JUndef)
         IN  IF limit = JNull THEN "basic"
             ELSE IF limit.t = "string" /\ limit.v \in {<<"P", "0", "D">>, <<"P", "1", "D">>}
             THEN "basic"
             ELSE "professional"

\* the tier named in the upgrade hint of a denial
getRequiredPlan(pls, endpointPath) ==
    IF ~Truthy(pls.limits) THEN "professional"
    ELSE LET limit == getPlanLimit(pls, endpointPath, JUndef)
         IN  IF limit = JNull THEN "professional"
             ELSE IF limit.t = "string" /\ limit.v \in {<<"P", "0", "D">>, <<"P", "1", "D">>}
             THEN "basic"
             ELSE "professional"

\* the access check of query_data and the hint it would attach to a denial
GetRequiredPlan(endpointPath) ==
    /\ ret' = [op |-> "getRequiredPlan", path |-> endpointPath,
               access |-> hasEndpointAccess(planLimitsState, endpointPath),
               result |-> getRequiredPlan(planLimitsState, endpointPath)]
    /\ UNCHANGED <<now, cacheFile, planLimitsState, permissionState, cachedDiscovery,
                   endpointCatalog, pc, loc, inits>>

HasEndpointAccess(endpointPath) ==
    /\ ret' = [op |-> "hasEndpointAccess", path |-> endpointPath,
               result |-> hasEndpointAccess(planLimitsState, endpointPath)]
    /\ UNCHANGED <<now, cacheFile, planLimitsState, permissionState, cachedDiscovery,
                   endpointCatalog, pc, loc, inits>>

InitAccess == Init /\ cacheFile = FileMissing

NextAccess ==
    \/ \E r \in PlanResponses : FetchPlanLimits(r)
    \/ \E b \in CachedBodies : LoadPlanLimitsFromCache(b)
    \/ resetPlanLimits
    \/ \E p \in Paths : HasEndpointAccess(p)
    \/ \E p \in Paths : GetRequiredPlan(p)
    \/ \E d \in TickSteps : Tick(d)

SpecAccess == InitAccess /\ [][NextAccess]_vars

(***************************************************************************)
(* The Cache Store on its own: the one cache file, written by writeCache,  *)
(* read by readCache, judged by isCacheValid, deleted by invalidateCache.  *)
(***************************************************************************)
KeyEmpty == <<>>
CacheKeys == {KeyAlice, KeyAlicf, KeyShort, KeyEmpty}

\* writeCache with what fetchPlanLimits returned for the payload
WriteCache(apiUrl, apiKey, body) ==
    \E r \in {fetchPlanLimits(Json(body), PLAN_DEFAULT_STATE, now)} :
        /\ cacheFile' = writeCache(apiUrl, apiKey, extractRawResponse(r.rawResponse), r.parsed,
                                   generateSummary(Prop(r.parsed, <<"limits">>),
                                                   Prop(r.parsed, <<"statics">>)),
                                   r.plan, now)
        /\ ret' = [op |-> "writeCache", apiUrl |-> apiUrl, apiKey |-> apiKey, body |-> body]
        /\ UNCHANGED <<now, planLimitsState, permissionState, cachedDiscovery, endpointCatalog,
                       pc, loc, inits>>

\* readCache(apiUrl), then isCacheValid on the record it returns, if any
ReadCache(apiUrl, apiKeyPrefix) ==
    LET cache == readCache(cacheFile, apiUrl)
    IN  /\ ret' = IF Truthy(cache)
                  THEN [op |-> "isCacheValid", cache |-> cache, apiUrl |-> apiUrl,
                        apiKeyPrefix |-> apiKeyPrefix,
                        result |-> isCacheValid(cache, apiUrl, apiKeyPrefix, now)]
                  ELSE [op |-> "readCache", cache |-> cache, apiUrl |-> apiUrl]
        /\ UNCHANGED <<now, cacheFile, planLimitsState, permissionState, cachedDiscovery,
                       endpointCatalog, pc, loc, inits>>

invalidateCache ==
    /\ cacheFile' = FileMissing
    /\ ret' = [op |-> "invalidateCache"]
    /\ UNCHANGED <<now, planLimitsState, permissionState, cachedDiscovery, endpointCatalog, pc,
                   loc, inits>>

NextCache ==
    \/ \E u \in ApiUrls, k \in CacheKeys, b \in {BodyProfessional, BodyStaticsOnly} :
          WriteCache(u, k, b)
    \/ \E u \in ApiUrls, k \in CacheKeys : ReadCache(u, Slice(k, 8))
    \/ invalidateCache
    \/ \E d \in TickSteps : Tick(d)

SpecCache == Init /\ [][NextCache]_vars

(***************************************************************************)
(* initializePermissions started on whatever the cache file holds: nothing, *)
(* bytes that are no JSON, JSON null, and a record that is current for      *)
(* KeyAlice at UrlProd, whole or with one of its top-level fields missing.  *)
(***************************************************************************)
RecordFields == {"version", "metadata", "raw_response", "parsed", "summary"}

\* the object without its property key
WithoutField(j, key) == JObj(SelectSeq(j.v, LAMBDA e : e.k # key))

CurrentRecord ==
    CacheRecord(CACHE_VERSION, UrlProd, Slice(KeyAlice, 8), JStr(ToISO(0)),
                JStr(ToISO(CACHE_TTL_DAYS)), BodyProfessional)

FilesOnDisk ==
    {FileMissing, FileGarbage, FileJson(JNull), FileJson(CurrentRecord)}
        \cup {FileJson(WithoutField(CurrentRecord, <<f>>)) : f \in RecordFields}

InitFiles ==
    /\ now = 0
    /\ cacheFile \in FilesOnDisk
    /\ planLimitsState = PLAN_DEFAULT_STATE
    /\ permissionState = PERMISSION_DEFAULT_STATE
    /\ cachedDiscovery = JNull
    /\ endpointCatalog = JNull
    /\ pc = [c \in AllCalls |-> "idle"]
    /\ loc = [c \in AllCalls |-> BlankLoc]
    /\ ret = [op |-> "boot"]
    /\ inits = 0

NextFiles ==
    \/ \E c \in SeqCalls, l \in {<<KeyAlice, UrlProd>>, <<KeyShort, UrlProd>>} :
          Idle /\ InitializeStart(c, l[1], l[2])
    \/ \E c \in SeqCalls, r \in {NetworkError, Json(DiscoveryBtc)} : HitDiscoveryResponse(c, r)
    \/ \E c \in SeqCalls, r \in {NetworkError, Json(DiscoveryBtc)} : MissDiscoveryResponse(c, r)
    \/ \E c \in SeqCalls, r \in {Http(403), Http(401), Json(BodyHeuristicBasic)} :
          PlanResponse(c, r, "ok")
    \/ \E d \in TickSteps : Idle /\ Tick(d)

SpecFiles == InitFiles /\ [][NextFiles]_vars

(***************************************************************************)
(* The Endpoint Catalog on its own: populated by fetchDiscoveryEndpoints,  *)
(* cleared by resetDiscovery.                                              *)
(***************************************************************************)
\* a descriptor list holds at most this many descriptors
MaxEndpoints == 3

\* a metric of several characters, one of them in upper case
PathPriceUsd == <<"/", "v1", "/", "btc", "/", "market-data", "/", "price", "-", "USD">>
\* 4 segments
PathStatus == <<"/", "v1", "/", "btc", "/", "status">>

WindowDayHour == <<E("window", JArr(<<S("day"), S("hour")>>))>>

CatalogDescriptors ==
    {Descriptor(PathPrice, WindowDayHour, <<S("window")>>),
     Descriptor(PathPriceUsd, <<E("window", JArr(<<S("day")>>)),
                                E("exchange", JArr(<<S("binance")>>))>>,
                <<S("window"), S("exchange")>>),
     Descriptor(PathFlowIn, <<>>, <<>>),
     Descriptor(PathEthPrice, WindowDayHour, <<>>),
     Descriptor(PathPing, <<>>, <<>>),
     Descriptor(PathStatus, <<>>, <<>>)}

\* the descriptor lists of at most MaxEndpoints descriptors, repetitions included
DescriptorLists == UNION {[1..n -> CatalogDescriptors] : n \in 0..MaxEndpoints}

\* a session fetches the catalog at most this many times
MaxFetches == 1

\* inits counts the catalog fetches
FetchDiscoveryEndpoints(response) ==
    /\ inits < MaxFetches
    /\ \E d \in {fetchDiscoveryEndpoints(response, endpointCatalog, now)} :
          /\ endpointCatalog' = d.catalog
          /\ ret' = [op |-> "fetchDiscoveryEndpoints", discovery |-> response,
                     success |-> d.success]
    /\ inits' = inits + 1
    /\ UNCHANGED <<now, cacheFile, planLimitsState, permissionState, cachedDiscovery, pc, loc>>

Options(asset, category, query) ==
    JObj(<<E("asset", asset), E("category", category), E("query", query)>>)

SearchAssets == {JUndef, JStr(<<>>), S("btc"), S("eth")}
SearchCategories == {JUndef, JStr(<<>>), S("market-data"), S("network-data")}
SearchQueries == {JUndef, JStr(<<>>), S("price"), S("USD"), JStr(<<"flow", "/", "in">>)}

SearchOptions ==
    {Options(a, c, q) : a \in SearchAssets, c \in SearchCategories, q \in SearchQueries}

SearchEndpoints(options) ==
    /\ ret' = [op |-> "searchEndpoints", options |-> options,
               result |-> searchEndpoints(endpointCatalog, options)]
    /\ UNCHANGED <<now, cacheFile, planLimitsState, permissionState, cachedDiscovery,
                   endpointCatalog, pc, loc, inits>>

resetDiscovery ==
    /\ endpointCatalog' = JNull
    /\ ret' = [op |-> "resetDiscovery"]
    /\ UNCHANGED <<now, cacheFile, planLimitsState, permissionState, cachedDiscovery, pc, loc,
                   inits>>

\* the answers of the discovery service: a descriptor list, or a failure
CatalogResponses == {Json(Envelope(200, raw)) : raw \in DescriptorLists}
CatalogFailures == {NetworkError, Http(401), BadJson, Json(Envelope(401, <<>>))}

NextCatalog ==
    \/ \E response \in CatalogResponses \cup CatalogFailures :
          FetchDiscoveryEndpoints(response)
    \/ \E options \in SearchOptions : SearchEndpoints(options)
    \/ resetDiscovery

SpecCatalog == InitAccess /\ [][NextCatalog]_vars

(***************************************************************************)
(* Parameter validation on its own: validateEndpointParams on the          *)
(* endpoints of a catalog and the parameter objects of a query.            *)
(***************************************************************************)
\* the endpoints parsed from the descriptors
ParamEndpoints ==
    {ParseFrom(<<d>>, 1, NoEndpoints).endpoints[1] :
        d \in {c \in CatalogDescriptors : ParseFrom(<<c>>, 1, NoEndpoints).endpoints # <<>>}}

\* a query's parameters; an absent one has no entry
Absent == [t |-> "absent"]

Params(window, exchange, symbol) ==
    JObj(SelectSeq(<<E("window", window), E("exchange", exchange), E("symbol", symbol)>>,
                   LAMBDA e : e.v # Absent))

ParamWindows == {Absent, JUndef, JNull, S("day"), S("hour"), S("week"), JNum(7)}
ParamExchanges == {Absent, S("binance"), S("okx")}
ParamSymbols == {Absent, S("btc_usd")}

ParamObjects ==
    {Params(w, x, y) : w \in ParamWindows, x \in ParamExchanges, y \in ParamSymbols}

ValidateEndpointParams(endpoint, params) ==
    /\ ret' = [op |-> "validateEndpointParams", endpoint |-> endpoint, params |-> params,
               result |-> validateEndpointParams(endpoint, params)]
    /\ UNCHANGED <<now, cacheFile, planLimitsState, permissionState, cachedDiscovery,
                   endpointCatalog, pc, loc, inits>>

NextParams ==
    \E endpoint \in ParamEndpoints, params \in ParamObjects :
        ValidateEndpointParams(endpoint, params)

SpecParams == InitAccess /\ [][NextParams]_vars

(***************************************************************************)
(* Tier resolution and payload parsing on their own: fetchPlanLimits on    *)
(* permission payloads of every shape.                                     *)
(***************************************************************************)
PlanNamed(name) == JObj(<<E("name", name)>>)

\* the plan field of a payload
TierPlans ==
    {Absent, JNull, S("premium"), PlanNamed(S("PROFESSIONAL")), PlanNamed(S("Premium")),
     PlanNamed(S("basic")), PlanNamed(S("ENTERPRISE")), PlanNamed(JStr(<<>>)),
     PlanNamed(JNum(3))}

LeafUnlimited == JObj(<<E("day", Tok("0", "D")), E("hour", Tok("0", "D"))>>)
LeafOneDay == JObj(<<E("day", Tok("1", "D"))>>)
LeafSoon == JObj(<<E("day", S("soon"))>>)
\* the windows under a key of their own, next to a number
LeafNested == JObj(<<E("window", JObj(<<E("day", Tok("1", "Y"))>>)), E("limit", JNum(1000))>>)
\* no digit, a unit outside YMWD, two digits
LeafMixed ==
    JObj(<<E("day", JStr(<<"P", "D">>)), E("hour", JStr(<<"P", "1", "H">>)),
           E("week", JStr(<<"P", "1", "2", "M">>))>>)

\* what a payload holds for a metric
TierLeaves == {LeafUnlimited, LeafOneDay, LeafSoon, LeafNested, LeafMixed, Tok("1", "D")}

\* what a payload holds under apiEndpoint.statics
TierStatics ==
    {Absent, JArr(<<JStr(PathEntity)>>),
     JObj(<<E("market-data", JObj(<<E("price", LeafOneDay)>>))>>)}

EndpointObject(statics, price, mvrv) ==
    JObj(SelectSeq(<<E("btc", JObj(<<E("market-data",
                                      JObj(<<E("price", price), E("mvrv", mvrv)>>)),
                                    E("status", S("up"))>>)),
                     E("eth", JNull),
                     E("statics", statics)>>,
                   LAMBDA e : e.v # Absent))

TierEndpoints ==
    {Absent, JNull}
        \cup {EndpointObject(s, p, m) :
                 s \in TierStatics, p \in TierLeaves, m \in {LeafOneDay, LeafSoon}}

TierBody(plan, apiEndpoint) ==
    JObj(SelectSeq(<<E("plan", plan), E("apiEndpoint", apiEndpoint)>>,
                   LAMBDA e : e.v # Absent))

TierResponses ==
    {Json(TierBody(p, a)) : p \in TierPlans, a \in TierEndpoints}
        \cup {Json(JNull), Http(403), NetworkError}

NextTier ==
    \/ \E response \in TierResponses : FetchPlanLimits(response)
    \/ resetPlanLimits

SpecTier == InitAccess /\ [][NextTier]_vars

(***************************************************************************)
(* The limits heuristic on its own: detectPlanFromLimits on Permission     *)
(* Tables of every mix of durations.                                       *)
(***************************************************************************)
\* a Permission Table has at most this many window entries
MaxEntries == 10

\* n times the duration
Repeat(duration, n) == [i \in 1..n |-> duration]

\* a Permission Table with the durations as its window entries: two to a metric,
\* the metrics under btc/market-data
TableOf(durations) ==
    LET metrics == (Len(durations) + 1) \div 2
        windows(m) ==
            IF 2 * m <= Len(durations)
            THEN <<E("day", durations[2 * m - 1]), E("hour", durations[2 * m])>>
            ELSE <<E("day", durations[2 * m - 1])>>
    IN  JObj(<<E("btc", JObj(<<E("market-data",
                 JObj([m \in 1..metrics |->
                         [k |-> <<"metric", ToString(m)>>,
                          v |-> JObj(<<E("window", JObj(windows(m)))>>)]]))>>))>>)

\* how many one-day, unlimited, three-year and one-year entries a table has
Mixes == {mix \in [1..4 -> 0..MaxEntries] : mix[1] + mix[2] + mix[3] + mix[4] <= MaxEntries}

Tables ==
    {JNull, JObj(<<>>)}
        \cup {TableOf(Repeat(Tok("1", "D"), mix[1]) \o Repeat(Tok("0", "D"), mix[2])
                        \o Repeat(Tok("3", "Y"), mix[3]) \o Repeat(Tok("1", "Y"), mix[4])) :
                 mix \in Mixes}

\* a caller is about to ask detectPlanFromLimits(limits)
InitHeuristic ==
    /\ now = 0
    /\ cacheFile = FileMissing
    /\ planLimitsState = PLAN_DEFAULT_STATE
    /\ permissionState = PERMISSION_DEFAULT_STATE
    /\ cachedDiscovery = JNull
    /\ endpointCatalog = JNull
    /\ pc = [c \in AllCalls |-> "idle"]
    /\ loc = [c \in AllCalls |-> BlankLoc]
    /\ ret \in {[op |-> "call", limits |-> limits] : limits \in Tables}
    /\ inits = 0

DetectPlanFromLimits ==
    /\ ret.op = "call"
    /\ ret' = [op |-> "detectPlanFromLimits", limits |-> ret.limits,
               plan |-> detectPlanFromLimits(ret.limits)]
    /\ UNCHANGED <<now, cacheFile, planLimitsState, permissionState, cachedDiscovery,
                   endpointCatalog, pc, loc, inits>>

NextHeuristic == DetectPlanFromLimits

SpecHeuristic == InitHeuristic /\ [][NextHeuristic]_vars

(***************************************************************************)
(* Date-range validation on its own: validateDateRange against the limits  *)
(* that fetchPlanLimits loaded.                                            *)
(***************************************************************************)
\* an unlimited window listed first, then windows of one month and two weeks;
\* a metric without an unlimited window
BodyWindows(planName) ==
    JObj(<<
        E("plan", JObj(<<E("name", planName)>>)),
        E("apiEndpoint", JObj(<<
            E("btc", JObj(<<E("market-data", JObj(<<
                E("price", JObj(<<E("hour", Tok("0", "D")), E("day", Tok("1", "M")),
                                  E("week", Tok("2", "W"))>>)),
                E("mvrv", JObj(<<E("day", Tok("1", "Y")), E("hour", Tok("1", "D"))>>))>>))>>)),
            E("statics", JArr(<<JStr(PathEntity)>>))>>))>>)

DateResponses ==
    {Json(BodyWindows(S("advanced"))), Json(BodyWindows(S("PROFESSIONAL"))),
     Json(BodyUnknownTier), Http(403)}

DatePaths == {PathPrice, PathMvrv, PathEntity}

\* the window query parameter: absent, a window type, a name every object inherits
WindowTypes == {JUndef, S("day"), S("week"), S("constructor")}

\* 2024-03-31 at noon and 2024-02-29 at midnight
DateClocks ==
    {TicksPerDay * DaysFromCivil(2024, 3, 31) + (TicksPerDay \div 2),
     TicksPerDay * DaysFromCivil(2024, 2, 29)}

\* the finite limits of BodyWindows
FiniteTokens == {<<"P", "1", "M">>, <<"P", "2", "W">>, <<"P", "1", "Y">>, <<"P", "1", "D">>}

\* the from parameter at instant t: absent, empty, not a date, long ago, and for
\* each finite limit the day before the earliest allowed instant, its day, and
\* its day at noon
FromDates(t) ==
    {JUndef, JStr(<<>>), S("yesterday"), JStr(DateOnly(TicksPerDay * DaysFromCivil(2000, 1, 1)))}
        \cup {JStr(DateOnly(parseDurationToDate(token, t).v - k * TicksPerDay)) :
                 token \in FiniteTokens, k \in {0, 1}}
        \cup {JStr(DateOnly(parseDurationToDate(token, t).v) \o NoonSuffix) :
                 token \in FiniteTokens}

InitDates ==
    /\ now \in DateClocks
    /\ cacheFile = FileMissing
    /\ planLimitsState = PLAN_DEFAULT_STATE
    /\ permissionState = PERMISSION_DEFAULT_STATE
    /\ cachedDiscovery = JNull
    /\ endpointCatalog = JNull
    /\ pc = [c \in AllCalls |-> "idle"]
    /\ loc = [c \in AllCalls |-> BlankLoc]
    /\ ret = [op |-> "boot"]
    /\ inits = 0

ValidateDateRange(endpointPath, fromDate, windowType) ==
    /\ ret' = [op |-> "validateDateRange", path |-> endpointPath, fromDate |-> fromDate,
               windowType |-> windowType,
               result |-> validateDateRange(planLimitsState, endpointPath, fromDate,
                                            windowType, now)]
    /\ UNCHANGED <<now, cacheFile, planLimitsState, permissionState, cachedDiscovery,
                   endpointCatalog, pc, loc, inits>>

NextDates ==
    \/ \E response \in DateResponses : FetchPlanLimits(response)
    \/ \E endpointPath \in DatePaths, windowType \in WindowTypes :
          \E fromDate \in FromDates(now) :
             ValidateDateRange(endpointPath, fromDate, windowType)
    \/ resetPlanLimits

SpecDates == InitDates /\ [][NextDates]_vars

(***************************************************************************)
(* Duration decoding on its own: parseDurationToDate on tokens of every    *)
(* shape, at clocks around month ends.                                     *)
(***************************************************************************)
\* the amounts of the well-formed tokens, as they are written
DecodeAmounts == {<<"0">>, <<"1">>, <<"2">>, <<"3">>, <<"7">>, <<"1", "2">>, <<"1", "4">>,
                  <<"2", "1">>, <<"0", "0">>, <<"0", "7">>}

DecodeTokens ==
    {<<"P">> \o amount \o <<unit>> : amount \in DecodeAmounts, unit \in {"Y", "M", "W", "D"}}
        \cup {<<>>, <<"P">>, <<"P", "D">>, <<"P", "1">>, <<"1", "D">>, <<"P", "1", "H">>,
              <<"p", "1", "d">>, <<"P", "1", "D", "D">>, <<"P", "-", "1", "D">>,
              <<"P", "T", "1", "H">>, <<"P", "1", "D", " ">>, <<"P", "1", ".", "5", "D">>}

\* 2024-03-31 noon, 2024-02-29 midnight, 2023-01-01 noon, 2024-12-31 midnight,
\* 2025-05-30 noon
DecodeClocks ==
    {TicksPerDay * DaysFromCivil(2024, 3, 31) + (TicksPerDay \div 2),
     TicksPerDay * DaysFromCivil(2024, 2, 29),
     TicksPerDay * DaysFromCivil(2023, 1, 1) + (TicksPerDay \div 2),
     TicksPerDay * DaysFromCivil(2024, 12, 31),
     TicksPerDay * DaysFromCivil(2025, 5, 30) + (TicksPerDay \div 2)}

InitDecode ==
    /\ now \in DecodeClocks
    /\ cacheFile = FileMissing
    /\ planLimitsState = PLAN_DEFAULT_STATE
    /\ permissionState = PERMISSION_DEFAULT_STATE
    /\ cachedDiscovery = JNull
    /\ endpointCatalog = JNull
    /\ pc = [c \in AllCalls |-> "idle"]
    /\ loc = [c \in AllCalls |-> BlankLoc]
    /\ ret = [op |-> "boot"]
    /\ inits = 0

ParseDurationToDate(duration) ==
    /\ ret' = [op |-> "parseDurationToDate", duration |-> duration,
               result |-> parseDurationToDate(duration, now)]
    /\ UNCHANGED <<now, cacheFile, planLimitsState, permissionState, cachedDiscovery,
                   endpointCatalog, pc, loc, inits>>

NextDecode == \E duration \in DecodeTokens : ParseDurationToDate(duration)

SpecDecode == InitDecode /\ [][NextDecode]_vars

(***************************************************************************)
(* The query tools (tools/core.ts): discover_endpoints, get_endpoint_info  *)
(* and query_data, on the session that initializePermissions built.  A     *)
(* tool's answer records whether the handler consulted the endpoint        *)
(* catalog (lookup) and whether it issued its HTTP request (sent).         *)
(***************************************************************************)
\* errorResponse(error, ...) returned before any request
ToolRefused(error, lookup) ==
    [raised |-> FALSE, success |-> FALSE, error |-> JStr(error), lookup |-> lookup,
     sent |-> FALSE, matched |-> 0]

\* the handler's promise rejects: an exception left it
ToolRaised ==
    [raised |-> TRUE, success |-> FALSE, error |-> S("TypeError"), lookup |-> TRUE,
     sent |-> FALSE, matched |-> 0]

\* jsonResponse({success: true, ...}) of a tool that sends no request
ToolAnswered(matched) ==
    [raised |-> FALSE, success |-> TRUE, error |-> JUndef, lookup |-> TRUE, sent |-> FALSE,
     matched |-> matched]

\* what query_data returns once its request was issued
ToolSent(response) ==
    [raised |-> FALSE, success |-> response.kind = "json",
     error |-> CASE response.kind = "network-error" -> S("Network error")
                 [] response.kind = "http" ->
                       JStr(<<"API request failed: ", ToString(response.status)>>)
                 [] response.kind = "bad-json" -> S("Failed to parse API response")
                 [] OTHER -> JUndef,
     lookup |-> TRUE, sent |-> TRUE, matched |-> 0]

\* endpointCatalog?.endpoints.find((ep) => ep.path === path)
getEndpointByPath(catalog, path) ==
    IF catalog = JNull THEN JUndef
    ELSE LET endpoints == Prop(catalog, <<"endpoints">>).v
             found == {i \in 1..Len(endpoints) : Prop(endpoints[i], <<"path">>) = JStr(path)}
         IN  IF found = {} THEN JUndef
             ELSE endpoints[CHOOSE i \in found : \A j \in found : i <= j]

\* discover_endpoints testing the catalog before the session
discover_endpoints_LoadedFirst(perm, catalog, options) ==
    IF catalog = JNull THEN ToolRefused(<<"Discovery data not loaded">>, TRUE)
    ELSE IF ~perm.authenticated THEN ToolRefused(<<"Not authenticated">>, FALSE)
    ELSE ToolAnswered(Len(searchEndpoints(catalog, options)))

\* discover_endpoints searching a catalog that was never loaded
discover_endpoints_SearchesUnloaded(perm, catalog, options) ==
    IF ~perm.authenticated THEN ToolRefused(<<"Not authenticated">>, FALSE)
    ELSE IF catalog = JNull THEN ToolAnswered(0)
    ELSE ToolAnswered(Len(searchEndpoints(catalog, options)))

discover_endpoints(perm, catalog, options) ==
    IF ~perm.authenticated THEN ToolRefused(<<"Not authenticated">>, FALSE)
    ELSE IF catalog = JNull THEN ToolRefused(<<"Discovery data not loaded">>, TRUE)
    ELSE ToolAnswered(Len(searchEndpoints(catalog, options)))

get_endpoint_info(perm, catalog, endpoint) ==
    IF ~perm.authenticated THEN ToolRefused(<<"Not authenticated">>, FALSE)
    ELSE IF getEndpointByPath(catalog, endpoint) = JUndef
    THEN ToolRefused(<<"Endpoint not found: ">> \o endpoint, TRUE)
    ELSE ToolAnswered(1)

\* the handler of query_data; response is the answer to its request, if it
\* issues one
query_data(perm, catalog, pls, endpoint, params, response, t) ==
    LET ep == getEndpointByPath(catalog, endpoint)
        fromDate == Prop(params, <<"from">>)
        windowParam == Prop(params, <<"window">>)
        dateValidation == validateDateRange(pls, endpoint, fromDate, windowParam, t)
    IN  IF ~perm.authenticated THEN ToolRefused(<<"Not authenticated">>, FALSE)
        ELSE IF ep = JUndef THEN ToolRefused(<<"Unknown endpoint: ">> \o endpoint, TRUE)
        ELSE IF ~validateEndpointParams(ep, params).valid
        THEN ToolRefused(<<"Invalid parameters">>, TRUE)
        ELSE IF pls.loaded /\ ~hasEndpointAccess(pls, endpoint)
        THEN ToolRefused(<<"Endpoint not accessible on your plan">>, TRUE)
        ELSE IF pls.loaded /\ Truthy(fromDate) /\ dateValidation.raised THEN ToolRaised
        ELSE IF pls.loaded /\ Truthy(fromDate) /\ ~dateValidation.valid
        THEN ToolRefused(IF Truthy(dateValidation.error) THEN dateValidation.error.v
                         ELSE <<"Date range exceeds plan limit">>, TRUE)
        ELSE IF ~Truthy(perm.api_key) THEN ToolRefused(<<"API key not available">>, TRUE)
        ELSE ToolSent(response)

\* a catalog with an endpoint that declares its window parameter, one that
\* declares no parameter, and an endpoint of the Static List
DiscoveryTools ==
    Envelope(200, <<
        Descriptor(PathPrice, <<E("window", JArr(<<S("day"), S("hour")>>))>>, <<S("window")>>),
        Descriptor(PathMvrv, <<>>, <<>>),
        Descriptor(PathEntity, <<>>, <<>>)>>)

ToolLogins == {<<KeyAlice, UrlProd>>}
ToolDiscoveryResponses == {NetworkError, Json(DiscoveryTools)}
ToolPlanResponses == {NetworkError, Http(403), Json(BodyProfessional)}
ToolFs == {"ok"}

\* the endpoint argument: two endpoints of the catalog, one it does not hold
ToolEndpoints == {PathPrice, PathMvrv, PathEthPrice}

\* params of query_data: window and from
QueryParams(window, from) ==
    JObj(SelectSeq(<<E("window", window), E("from", from)>>, LAMBDA e : e.v # Absent))

QueryWindows == {Absent, S("day"), S("constructor")}

\* no from date, an empty one, one before and one after the earliest date a
\* limit of three years allows at the model's instant 0 (1970-01-01)
QueryFroms ==
    {Absent, JStr(<<>>), JStr(DateOnly(TicksPerDay * DaysFromCivil(1960, 1, 1))),
     JStr(DateOnly(TicksPerDay * DaysFromCivil(1969, 6, 1)))}

QueryParamObjects == {QueryParams(w, f) : w \in QueryWindows, f \in QueryFroms}

\* answers to the data request
DataResponses == {NetworkError, Http(429), Json(JObj(<<>>))}

DiscoverOptions ==
    {Options(JUndef, JUndef, JUndef), Options(S("btc"), S("market-data"), JUndef),
     Options(JUndef, JUndef, S("mvrv"))}

DiscoverEndpoints(options) ==
    /\ ret' = [op |-> "discover_endpoints", options |-> options,
               result |-> discover_endpoints(permissionState, endpointCatalog, options)]
    /\ UNCHANGED <<now, cacheFile, planLimitsState, permissionState, cachedDiscovery,
                   endpointCatalog, pc, loc, inits>>

GetEndpointInfo(endpoint) ==
    /\ ret' = [op |-> "get_endpoint_info", endpoint |-> endpoint,
               result |-> get_endpoint_info(permissionState, endpointCatalog, endpoint)]
    /\ UNCHANGED <<now, cacheFile, planLimitsState, permissionState, cachedDiscovery,
                   endpointCatalog, pc, loc, inits>>

\* response is NoResponse when the handler returns without a request
QueryData(endpoint, params, response) ==
    \E r \in {query_data(permissionState, endpointCatalog, planLimitsState, endpoint,
                         params, response, now)} :
        /\ r.sent <=> response # NoResponse
        /\ ret' = [op |-> "query_data", endpoint |-> endpoint, params |-> params,
                   response |-> response, result |-> r]
        /\ UNCHANGED <<now, cacheFile, planLimitsState, permissionState, cachedDiscovery,
                       endpointCatalog, pc, loc, inits>>

QueryResponses == DataResponses \cup {NoResponse}

NextTools ==
    \/ \E c \in SeqCalls, l \in ToolLogins : Idle /\ InitializeStart(c, l[1], l[2])
    \/ \E c \in SeqCalls, r \in ToolDiscoveryResponses : HitDiscoveryResponse(c, r)
    \/ \E c \in SeqCalls, r \in ToolDiscoveryResponses : MissDiscoveryResponse(c, r)
    \/ \E c \in SeqCalls, r \in ToolPlanResponses, fs \in ToolFs : PlanResponse(c, r, fs)
    \/ Idle /\ setGuestMode
    \/ Idle /\ resetPermissions
    \/ \E options \in DiscoverOptions : DiscoverEndpoints(options)
    \/ \E endpoint \in ToolEndpoints : GetEndpointInfo(endpoint)
    \/ \E endpoint \in ToolEndpoints, params \in QueryParamObjects,
          response \in QueryResponses : QueryData(endpoint, params, response)

SpecTools == InitConcurrent /\ [][NextTools]_vars

(***************************************************************************)
(* The reset_session tool                                                  *)
(***************************************************************************)
\* reset_session forgetting the in-memory record only, the cache file left in place
ResetSession_KeepsCacheFile(clear_stored, clear_cache) ==
    /\ permissionState' = PERMISSION_DEFAULT_STATE
    /\ cachedDiscovery' = JNull
    /\ endpointCatalog' = JNull
    /\ planLimitsState' = PLAN_DEFAULT_STATE
    /\ cacheFile' = cacheFile
    /\ ret' = [op |-> "reset_session", clear_stored |-> clear_stored,
               clear_cache |-> clear_cache, found |-> cacheFile,
               unlinked |-> (IF Truthy(clear_stored) THEN {"credentials"} ELSE {})
                            \cup (IF Truthy(clear_cache) THEN {"discovery-cache.json"}
                                  ELSE {}),
               clearedItems |-> <<"session">>
                                \o (IF Truthy(clear_stored) THEN <<"credentials">> ELSE <<>>)
                                \o (IF Truthy(clear_cache) THEN <<"discovery cache">>
                                    ELSE <<>>)]
    /\ UNCHANGED <<now, pc, loc, inits>>

\* the handler of reset_session: resetPermissions, then clearCredentials when
\* clear_stored is truthy, then clearDiscoveryCache(getApiUrl()) when clear_cache
\* is; unlinked names the files the handler removes, found is the cache file as
\* the handler found it
ResetSession(clear_stored, clear_cache) ==
    /\ permissionState' = PERMISSION_DEFAULT_STATE
    /\ cachedDiscovery' = JNull
    /\ endpointCatalog' = JNull
    /\ planLimitsState' = PLAN_DEFAULT_STATE
    /\ cacheFile' = IF Truthy(clear_cache) THEN FileMissing ELSE cacheFile
    /\ ret' = [op |-> "reset_session", clear_stored |-> clear_stored,
               clear_cache |-> clear_cache, found |-> cacheFile,
               unlinked |-> (IF Truthy(clear_stored) THEN {"credentials"} ELSE {})
                            \cup (IF Truthy(clear_cache) THEN {"discovery-cache.json"}
                                  ELSE {}),
               clearedItems |-> <<"session">>
                                \o (IF Truthy(clear_stored) THEN <<"credentials">> ELSE <<>>)
                                \o (IF Truthy(clear_cache) THEN <<"discovery cache">>
                                    ELSE <<>>)]
    /\ UNCHANGED <<now, pc, loc, inits>>

\* an optional boolean parameter: left out, true, false
ResetFlags == {JUndef, JBool(TRUE), JBool(FALSE)}

SessionLogins == {<<KeyAlice, UrlProd>>, <<KeyAlice, UrlStage>>}

SessionFs == {"ok", "write-failed"}

\* the initialize, reset_session and guest-mode operations, one at a time
NextSession ==
    \/ \E c \in SeqCalls, l \in SessionLogins : Idle /\ InitializeStart(c, l[1], l[2])
    \/ \E c \in SeqCalls, r \in ConcurrentDiscoveryResponses : HitDiscoveryResponse(c, r)
    \/ \E c \in SeqCalls, r \in ConcurrentDiscoveryResponses : MissDiscoveryResponse(c, r)
    \/ \E c \in SeqCalls, r \in ToolPlanResponses, fs \in SessionFs : PlanResponse(c, r, fs)
    \/ \E clear_stored \in ResetFlags, clear_cache \in ResetFlags :
          Idle /\ ResetSession(clear_stored, clear_cache)
    \/ Idle /\ setGuestMode
    \/ \E d \in TickSteps : Tick(d)

SpecSession == InitConcurrent /\ [][NextSession]_vars

(***************************************************************************)
(* The Cache Store under the coordinator: the cache file belongs to the    *)
(* local user, so it is written, read and deleted through the store's      *)
(* exported functions also between two initializePermissions calls         *)
(***************************************************************************)
StoreKeys == {KeyAlice}

StoreBodies == {BodyProfessional}

NextStore ==
    \/ \E u \in ApiUrls, k \in StoreKeys, b \in StoreBodies : Idle /\ WriteCache(u, k, b)
    \/ \E u \in ApiUrls, k \in StoreKeys : Idle /\ ReadCache(u, Slice(k, 8))
    \/ Idle /\ invalidateCache
    \/ \E c \in SeqCalls, l \in SessionLogins : Idle /\ InitializeStart(c, l[1], l[2])
    \/ \E c \in SeqCalls, r \in ConcurrentDiscoveryResponses : HitDiscoveryResponse(c, r)
    \/ \E c \in SeqCalls, r \in ConcurrentDiscoveryResponses : MissDiscoveryResponse(c, r)
    \/ \E c \in SeqCalls, r \in ConcurrentPlanResponses, fs \in ConcurrentFs :
          PlanResponse(c, r, fs)
    \/ \E d \in TickSteps : Tick(d)

SpecStore == InitConcurrent /\ [][NextStore]_vars

(***************************************************************************)
(* Switching accounts on one service URL: the service answers the          *)
(* permission fetch by the account of the credential presented             *)
(***************************************************************************)
\* the permission payload of the account a credential belongs to
AccountBody(apiKey) ==
    CASE apiKey = KeyAlice -> BodyProfessional
      [] apiKey = KeyAlicf -> BodyAdvanced
      [] OTHER -> BodyHeuristicBasic

SwitchPlanResponses ==
    {NetworkError, Json(BodyProfessional), Json(BodyAdvanced), Json(BodyHeuristicBasic)}

NextSwitch ==
    \/ \E c \in SeqCalls, k \in ApiKeys : Idle /\ InitializeStart(c, k, UrlProd)
    \/ \E c \in SeqCalls, r \in ConcurrentDiscoveryResponses : HitDiscoveryResponse(c, r)
    \/ \E c \in SeqCalls, r \in ConcurrentDiscoveryResponses : MissDiscoveryResponse(c, r)
    \/ \E c \in SeqCalls, r \in SwitchPlanResponses, fs \in ConcurrentFs :
          /\ r = NetworkError \/ r = Json(AccountBody(loc[c].apiKey))
          /\ PlanResponse(c, r, fs)
    \/ Idle /\ resetPermissions
    \/ \E d \in TickSteps : Tick(d)

SpecSwitch == InitConcurrent /\ [][NextSwitch]_vars

(***************************************************************************)
(* Two initialize calls that overlap: the first is made with one           *)
(* credential, the second with another while the first may be suspended;   *)
(* every fetch succeeds and is answered by the account of its credential   *)
(***************************************************************************)
\* the catalog the service lists for the account of a credential
AccountCatalog(apiKey) == IF apiKey = KeyAlice THEN DiscoveryTools ELSE DiscoveryBtc

OverlapKeys == {KeyAlice, KeyShort}

\* the credential of each call
CallKey(c) == IF c = "c1" THEN KeyAlice ELSE KeyShort

\* the call started when so many calls have started before
CallAt(n) == IF n = 0 THEN "c1" ELSE "c2"

OverlapCatalogResponses == {Json(DiscoveryTools), Json(DiscoveryBtc)}

OverlapPlanResponses == {Json(BodyProfessional), Json(BodyHeuristicBasic)}

\* the cache file before the first call: none, or the record of either account
OverlapFiles ==
    {FileMissing,
     FileJson(CacheRecord(CACHE_VERSION, UrlProd, Slice(KeyAlice, 8), JStr(ToISO(0)),
                          JStr(ToISO(CACHE_TTL_DAYS)), BodyProfessional)),
     FileJson(CacheRecord(CACHE_VERSION, UrlProd, Slice(KeyShort, 8), JStr(ToISO(0)),
                          JStr(ToISO(CACHE_TTL_DAYS)), BodyHeuristicBasic))}

InitOverlap ==
    /\ now = 0
    /\ cacheFile \in OverlapFiles
    /\ planLimitsState = PLAN_DEFAULT_STATE
    /\ permissionState = PERMISSION_DEFAULT_STATE
    /\ cachedDiscovery = JNull
    /\ endpointCatalog = JNull
    /\ pc = [c \in AllCalls |-> "idle"]
    /\ loc = [c \in AllCalls |-> BlankLoc]
    /\ ret = [op |-> "boot"]
    /\ inits = 0

NextOverlap ==
    \/ \E c \in AllCalls : c = CallAt(inits) /\ InitializeStart(c, CallKey(c), UrlProd)
    \/ \E c \in AllCalls, r \in OverlapCatalogResponses :
          r = Json(AccountCatalog(CallKey(c))) /\ HitDiscoveryResponse(c, r)
    \/ \E c \in AllCalls, r \in OverlapCatalogResponses :
          r = Json(AccountCatalog(CallKey(c))) /\ MissDiscoveryResponse(c, r)
    \/ \E c \in AllCalls, r \in OverlapPlanResponses, fs \in ConcurrentFs :
          r = Json(AccountBody(CallKey(c))) /\ PlanResponse(c, r, fs)
    \/ \E d \in TickSteps : Tick(d)

SpecOverlap == InitOverlap /\ [][NextOverlap]_vars

(***************************************************************************)
(* Properties of the Plan-Limits Resolver (specification SpecAccess)       *)
(***************************************************************************)
KnownTiers == {"basic", "advanced", "professional", "premium", "custom"}

\* the path is one of the strings of the Static Endpoint List
InStaticList(pls, path) == \E i \in 1..Len(pls.statics.v) : pls.statics.v[i] = JStr(path)

\* the Permission Table has a leaf for the path: its third segment an asset, its
\* fourth a category of the asset, the rest a metric of the category
InPermissionTable(pls, path) ==
    LET parts == Split(path)
        under(obj, key) == {obj.v[i].v : i \in {j \in 1..Len(obj.v) : obj.v[j].k = key}}
    IN  /\ pls.limits.t = "object"
        /\ Len(parts) >= 5
        /\ \E categories \in under(pls.limits, parts[3]) :
              \E metrics \in under(categories, parts[4]) :
                  under(metrics, JoinFrom(parts, 5)) # {}

Asked == ret.op = "hasEndpointAccess"

\* C1: hasEndpointAccess answers true for every path as long as the plan-limits
\* state has not been loaded or its tier is "unknown".
C1_FailOpen ==
    (Asked /\ (~planLimitsState.loaded \/ planLimitsState.plan = "unknown"))
        => ret.result = TRUE

\* a loaded state of unknown tier, asked for a path that neither its table nor
\* its statics hold
C1_Witness ==
    /\ Asked
    /\ planLimitsState.loaded
    /\ planLimitsState.plan = "unknown"
    /\ Truthy(planLimitsState.limits)
    /\ ~InPermissionTable(planLimitsState, ret.path)
    /\ ~InStaticList(planLimitsState, ret.path)
    /\ ret.result = TRUE

\* C2: with the state loaded, a known tier and a path outside the Static
\* Endpoint List, access is granted exactly when the path is in the Permission
\* Table or the tier is premium, professional or custom; basic without a
\* Permission Table is denied every such path.
C2_AllowList ==
    (/\ Asked
     /\ planLimitsState.loaded
     /\ planLimitsState.plan \in KnownTiers
     /\ ~InStaticList(planLimitsState, ret.path))
        => /\ ret.result = (\/ InPermissionTable(planLimitsState, ret.path)
                            \/ planLimitsState.plan \in {"premium", "professional", "custom"})
           /\ (planLimitsState.plan = "basic" /\ planLimitsState.limits = JNull)
                 => ret.result = FALSE

\* the advanced tier asked for a path its table does not list
C2_Witness ==
    /\ Asked
    /\ planLimitsState.loaded
    /\ planLimitsState.plan = "advanced"
    /\ Truthy(planLimitsState.limits)
    /\ ~InStaticList(planLimitsState, ret.path)
    /\ ~InPermissionTable(planLimitsState, ret.path)
    /\ ret.result = FALSE

\* C3: a path of the Static Endpoint List is accessible whatever the tier and
\* whether or not the state is loaded, basic without a Permission Table included.
C3_StaticsFirst ==
    (Asked /\ InStaticList(planLimitsState, ret.path)) => ret.result = TRUE

\* basic without a Permission Table, asked for one of its static paths
C3_Witness ==
    /\ Asked
    /\ planLimitsState.loaded
    /\ planLimitsState.plan = "basic"
    /\ planLimitsState.limits = JNull
    /\ InStaticList(planLimitsState, ret.path)
    /\ ret.result = TRUE

(***************************************************************************)
(* Properties of initializePermissions (specification Spec)                *)
(***************************************************************************)
\* an initializePermissions call returned in the last step
InitializeReturned == ret.op = "initialize" /\ ~ret.raised

\* the call found no valid cache record and got as far as the permission fetch
FreshFetched == InitializeReturned /\ ret.path = "miss" /\ ret.permission # NoResponse

RefusedFetch == {Http(403), Http(500)}
FailedFetch == {Http(401), BadJson, NetworkError}

\* C4: no valid cache record, catalog fetched, permission fetch answered 403 or
\* 500: initialize succeeds, the session is authenticated with tier basic, the
\* plan-limits state is loaded with no Permission Table and no statics, and
\* hasEndpointAccess denies every path.
C4_RefusalMeansBasic ==
    (FreshFetched /\ ret.permission \in RefusedFetch)
        => /\ ret.result.success
           /\ permissionState.authenticated
           /\ permissionState.plan = "basic"
           /\ planLimitsState.loaded
           /\ planLimitsState.plan = "basic"
           /\ planLimitsState.limits = JNull
           /\ planLimitsState.statics = JArr(<<>>)
           /\ \A p \in Paths : hasEndpointAccess(planLimitsState, p) = FALSE

\* a 500 answered to a call that follows a professional session
C4_Witness ==
    /\ FreshFetched
    /\ ret.permission = Http(500)
    /\ inits = 2
    /\ ret.result.success
    /\ permissionState.plan = "basic"
    /\ ~hasEndpointAccess(planLimitsState, PathPrice)

\* C5: a call that finds a cache record isCacheValid accepts loads table,
\* statics, rate limit and tier from the record, goes on to the catalog fetch
\* only, and returns success with the session authenticated and from_cache set,
\* whatever the catalog fetch answers; the cache file and the loaded state are
\* left as they are.
C5_CacheHit ==
    [][\A c \in AllCalls :
          /\ (pc[c] = "idle" /\ inits' # inits /\ ret'.call = c)
                => LET cache == readCache(cacheFile, ret'.apiUrl)
                       parsed == Prop(cache, <<"parsed">>)
                   IN  (/\ Truthy(cache)
                        /\ isCacheValid(cache, ret'.apiUrl, Slice(ret'.apiKey, 8), now))
                          => /\ pc'[c] = "hit-await-discovery"
                             /\ planLimitsState'.loaded
                             /\ planLimitsState'.limits = Prop(parsed, <<"limits">>)
                             /\ planLimitsState'.statics = Prop(parsed, <<"statics">>)
                             /\ planLimitsState'.apiRateLimit = Prop(parsed, <<"apiRateLimit">>)
                             /\ S(planLimitsState'.plan) =
                                    Prop(Prop(cache, <<"metadata">>), <<"plan">>)
          /\ (pc[c] = "hit-await-discovery" /\ pc'[c] # pc[c])
                => /\ pc'[c] = "idle"
                   /\ ret'.op = "initialize"
                   /\ ret'.result.success
                   /\ ret'.result.from_cache
                   /\ permissionState'.authenticated
                   /\ permissionState'.from_cache
                   /\ permissionState'.plan = planLimitsState.plan
                   /\ planLimitsState' = planLimitsState
                   /\ cacheFile' = cacheFile]_vars

\* a cache hit returned although the catalog fetch failed
C5_Witness ==
    /\ InitializeReturned
    /\ ret.path = "hit"
    /\ ret.discovery = NetworkError
    /\ ret.result.from_cache
    /\ permissionState.authenticated
    /\ permissionState.from_cache
    /\ planLimitsState.limits = Prop(Prop(ret.cache, <<"parsed">>), <<"limits">>)

\* initialize returned failure from the fresh-fetch branch
FreshFailed == InitializeReturned /\ ret.path = "miss" /\ ~ret.result.success

\* C6, as the specification states it: when initialize returns failure from
\* the fresh-fetch branch, the session is not authenticated, whatever state the
\* call started from.
C6_AsStated == FreshFailed => ~permissionState.authenticated

\* C6: on the fresh-fetch branch a failed catalog fetch, and an error raised
\* after it, make initialize return failure, and no step of a call other than
\* its successful return changes the session state: the session is not
\* authenticated after the failure unless it was authenticated before the call.
C6_FailureLeavesSession ==
    [][\A c \in AllCalls :
          /\ (/\ pc[c] = "miss-await-discovery"
              /\ pc'[c] # pc[c]
              /\ ~fetchDiscoveryEndpoints(ret'.discovery, endpointCatalog, now).success)
                => (pc'[c] = "idle" /\ ret'.op = "initialize" /\ ~ret'.result.success)
          /\ (pc[c] = "await-plan" /\ pc'[c] # pc[c] /\ ret'.fs # "ok")
                => (pc'[c] = "idle" /\ ret'.op = "initialize" /\ ~ret'.result.success)
          /\ (/\ pc[c] # "idle" \/ pc'[c] # "idle"
              /\ ~(ret'.op = "initialize" /\ ~ret'.raised /\ ret'.result.success))
                => permissionState' = permissionState]_vars

\* a failed call that follows a successful one: the earlier session is still there
C6_Witness ==
    /\ FreshFailed
    /\ ret.discovery \in {NetworkError, Http(401), BadJson}
    /\ permissionState.authenticated
    /\ permissionState.api_key # JStr(ret.apiKey)

\* C7: no valid cache record, catalog fetched, permission fetch failed (a
\* non-OK status other than 403 and 500, a body that is no JSON, a transport
\* error): initialize succeeds, the session is authenticated, and its tier is
\* the tier the plan-limits state holds.
C7_FailedFetchStillSucceeds ==
    (FreshFetched /\ ret.permission \in FailedFetch)
        => /\ ret.result.success
           /\ permissionState.authenticated
           /\ permissionState.api_key = JStr(ret.apiKey)
           /\ permissionState.plan = planLimitsState.plan

\* the tier held being the one an earlier call of another credential loaded
C7_Witness ==
    /\ FreshFetched
    /\ ret.permission = Http(401)
    /\ ret.apiKey = KeyShort
    /\ ret.result.success
    /\ permissionState.authenticated
    /\ permissionState.plan = "professional"

\* C8: the steps of initialize write the cache file only on the return of a
\* permission fetch that answered a JSON payload whose apiEndpoint is an
\* object; a cache hit, a 403 or 500, a failed permission fetch and a failed
\* catalog fetch leave the file as it is.
C8_WriteOnlyFreshPayload ==
    [][(/\ \E c \in AllCalls : pc[c] # "idle" \/ pc'[c] # "idle"
        /\ cacheFile' # cacheFile)
          => /\ ret'.op = "initialize"
             /\ ret'.path = "miss"
             /\ ret'.permission.kind = "json"
             /\ Truthy(Prop(ret'.permission.body, <<"apiEndpoint">>))
             /\ TypeofObject(Prop(ret'.permission.body, <<"apiEndpoint">>))]_vars

\* a fresh fetch that replaced the cache file with its own record
C8_Witness ==
    /\ FreshFetched
    /\ ret.result.cache_status = S("fresh")
    /\ cacheFile.kind = "json"
    /\ Prop(Prop(cacheFile.text, <<"metadata">>), <<"api_key_prefix">>)
           = JStr(Slice(ret.apiKey, 8))
    /\ Prop(Prop(cacheFile.text, <<"metadata">>), <<"cached_at">>) = JStr(ToISO(now))
    /\ now > 0

(***************************************************************************)
(* Properties of the Cache Store (specification SpecCache)                 *)
(***************************************************************************)
Judged == ret.op = "isCacheValid"

VersionMatches == Prop(ret.cache, <<"version">>) = JNum(CACHE_VERSION)
UrlMatches == Prop(Prop(ret.cache, <<"metadata">>), <<"api_url">>) = JStr(ret.apiUrl)
PrefixMatches ==
    Prop(Prop(ret.cache, <<"metadata">>), <<"api_key_prefix">>) = JStr(ret.apiKeyPrefix)
ExpiryOf(cache) == ParseDate(Prop(Prop(cache, <<"metadata">>), <<"expires_at">>))
NotExpired == ExpiryOf(ret.cache) # NaN /\ ExpiryOf(ret.cache) >= now

\* C9: isCacheValid accepts a record exactly when its version is the current
\* one, its URL and its credential prefix equal the ones given, and its expiry
\* is a valid time not earlier than now.
C9_ValidIffAllFour ==
    Judged => (ret.result = (VersionMatches /\ UrlMatches /\ PrefixMatches /\ NotExpired))

\* a record rejected for the credential prefix alone
C9_Witness ==
    /\ Judged
    /\ VersionMatches
    /\ UrlMatches
    /\ ~PrefixMatches
    /\ NotExpired
    /\ ret.result = FALSE

\* C10: right after writeCache, readCache returns a record that isCacheValid
\* accepts for the same URL and the first 8 characters of the same credential,
\* credentials shorter than 8 characters included; the record expires
\* CACHE_TTL_DAYS after the write.
C10_RoundTrip ==
    ret.op = "writeCache"
        => LET cache == readCache(cacheFile, ret.apiUrl)
           IN  /\ cache # JNull
               /\ isCacheValid(cache, ret.apiUrl, Slice(ret.apiKey, 8), now)
               /\ ExpiryOf(cache) = now + CACHE_TTL_DAYS

\* a record written late for a credential of 3 characters, read back and accepted
C10_Witness ==
    /\ ret.op = "writeCache"
    /\ Len(ret.apiKey) < 8
    /\ ret.apiKey # <<>>
    /\ now > 0
    /\ readCache(cacheFile, ret.apiUrl) # JNull
    /\ isCacheValid(readCache(cacheFile, ret.apiUrl), ret.apiUrl, ret.apiKey, now)

(***************************************************************************)
(* Properties of initializePermissions on any cache file (SpecFiles)       *)
(***************************************************************************)
\* the last step was initializePermissions reading the cache file
Started == ret.op \in {"await", "initialize"} /\ "valid" \in DOMAIN ret

\* the file is missing, is no JSON, or lacks a top-level field of the record
Malformed(file) ==
    \/ file.kind # "json"
    \/ \E f \in RecordFields : Prop(file.text, <<f>>) = JUndef

\* C11, as the specification states it: whatever the cache file holds -
\* nothing, bytes that are no JSON, JSON lacking one of version, metadata,
\* raw_response, parsed, summary - initialize takes it for a cache miss, goes
\* on to the fresh fetch, and never raises an error to its caller.
C11_AsStated ==
    /\ (ret.op = "initialize") => ~ret.raised
    /\ (Started /\ Malformed(cacheFile))
          => (ret.op = "await" /\ pc[ret.call] = "miss-await-discovery")

\* a record without its parsed fragment, current for the caller: the call raised
C11_Witness ==
    /\ Started
    /\ ret.op = "initialize"
    /\ ret.raised
    /\ Prop(cacheFile.text, <<"parsed">>) = JUndef
    /\ ret.valid
    /\ permissionState = PERMISSION_DEFAULT_STATE

(***************************************************************************)
(* Properties of resetPermissions (specification Spec)                     *)
(***************************************************************************)
\* C12: whatever state resetPermissions is called in, it leaves the session
\* unauthenticated with a null credential, tier "unknown", plan_limits_loaded
\* and from_cache false, no endpoint catalog, the plan-limits state at its
\* default and no in-memory cached-discovery record.
C12_ResetClearsAll ==
    ret.op = "resetPermissions"
        => /\ ~permissionState.authenticated
           /\ permissionState.api_key = JNull
           /\ permissionState.plan = "unknown"
           /\ ~permissionState.plan_limits_loaded
           /\ ~permissionState.from_cache
           /\ endpointCatalog = JNull
           /\ ~planLimitsState.loaded
           /\ planLimitsState.limits = JNull
           /\ planLimitsState.plan = "unknown"
           /\ planLimitsState.statics = JArr(<<>>)
           /\ planLimitsState.apiRateLimit = JNull
           /\ cachedDiscovery = JNull

\* a reset after two initialize calls, the cache file of the session still on disk
C12_Witness ==
    /\ ret.op = "resetPermissions"
    /\ inits = 2
    /\ cacheFile.kind = "json"
    /\ Prop(Prop(cacheFile.text, <<"metadata">>), <<"plan">>) = S("professional")
    /\ ~permissionState.authenticated
    /\ ~planLimitsState.loaded

(***************************************************************************)
(* Properties of the Endpoint Catalog (specification SpecCatalog)          *)
(***************************************************************************)
\* the number of slash-delimited segments of a path
SegmentCount(path) == Cardinality({i \in 1..Len(path) : path[i] = "/"}) + 1

\* the descriptor list the catalog fetch of the last step was answered
RawEndpoints == Prop(Prop(ret.discovery.body, <<"result">>), <<"data">>).v

Indexed == ret.op = "fetchDiscoveryEndpoints" /\ ret.success

\* entries holds, for each key some endpoint has and for no other key, once, the
\* endpoints of that key in the order of the full list
IndexHolds(index, endpoints, keyOf(_)) ==
    /\ \A i \in 1..Len(index.v) :
          /\ index.v[i].v.v # <<>>
          /\ index.v[i].v.v = SelectSeq(endpoints, LAMBDA ep : keyOf(ep) = index.v[i].k)
          /\ \A j \in 1..Len(index.v) : index.v[j].k = index.v[i].k => j = i
    /\ \A n \in 1..Len(endpoints) : \E i \in 1..Len(index.v) : index.v[i].k = keyOf(endpoints[n])

\* C13: parseEndpoints indexes exactly the descriptors whose path has at least
\* 5 segments, in input order and once per occurrence; each is filed in the
\* by-asset index under its asset only, in the by-category index under its
\* category only and in the composite index under "asset/category" only;
\* descriptors of fewer segments are in no index.
C13_IndexesExactlyLongPaths ==
    Indexed =>
        LET long == SelectSeq(RawEndpoints,
                              LAMBDA d : SegmentCount(Prop(d, <<"path">>).v) >= 5)
            endpoints == Prop(endpointCatalog, <<"endpoints">>).v
            assetOf(ep) == Prop(ep, <<"asset">>).v
            categoryOf(ep) == Prop(ep, <<"category">>).v
        IN  /\ Len(endpoints) = Len(long)
            /\ \A n \in 1..Len(long) :
                  /\ Prop(endpoints[n], <<"path">>) = Prop(long[n], <<"path">>)
                  /\ Prop(endpoints[n], <<"parameters">>) = Prop(long[n], <<"parameters">>)
                  /\ assetOf(endpoints[n]) = Split(Prop(long[n], <<"path">>).v)[3]
                  /\ categoryOf(endpoints[n]) = Split(Prop(long[n], <<"path">>).v)[4]
            /\ IndexHolds(Prop(endpointCatalog, <<"byAsset">>), endpoints, assetOf)
            /\ IndexHolds(Prop(endpointCatalog, <<"byCategory">>), endpoints, categoryOf)
            /\ IndexHolds(Prop(endpointCatalog, <<"byAssetCategory">>), endpoints,
                          LAMBDA ep : assetOf(ep) \o <<"/">> \o categoryOf(ep))

\* a list with a repeated descriptor and one of 4 segments: two endpoints under
\* one asset, nothing else
C13_Witness ==
    /\ Indexed
    /\ Len(RawEndpoints) = 3
    /\ RawEndpoints[1] = RawEndpoints[3]
    /\ Prop(RawEndpoints[2], <<"path">>) = JStr(PathStatus)
    /\ Len(Prop(endpointCatalog, <<"endpoints">>).v) = 2
    /\ Len(Prop(Prop(endpointCatalog, <<"byAsset">>), <<"btc">>).v) = 2

Searched == ret.op = "searchEndpoints"

\* the endpoint passes the filters among asset, category and query that given(_) takes
\* for given
Passes(ep, options, given(_)) ==
    LET asset == Prop(options, <<"asset">>)
        category == Prop(options, <<"category">>)
        query == Prop(options, <<"query">>)
    IN  /\ given(asset) => Prop(ep, <<"asset">>) = asset
        /\ given(category) => Prop(ep, <<"category">>) = category
        /\ given(query) =>
              \/ Includes(LowerCase(Prop(ep, <<"path">>).v), LowerCase(query.v))
              \/ Includes(LowerCase(Prop(ep, <<"metric">>).v), LowerCase(query.v))

\* search answers the full list filtered by the options that given(_) takes for given,
\* and the empty list on an unpopulated catalog
SearchFilters(given(_)) ==
    Searched =>
        IF endpointCatalog = JNull THEN ret.result = <<>>
        ELSE ret.result = SelectSeq(Prop(endpointCatalog, <<"endpoints">>).v,
                                    LAMBDA ep : Passes(ep, ret.options, given))

\* C14 as the specification states it, an option being given when it is supplied:
\* search returns the full list filtered by asset equality, category equality and
\* case-insensitive substring match of the query on path or metric.
C14_AsStated == SearchFilters(LAMBDA x : x # JUndef)

\* C14: search returns the full list filtered by asset equality, category
\* equality and case-insensitive substring match of the query on path or
\* metric, each filter applying when its option is a non-empty string, every
\* match once and in catalog order; with no option every indexed endpoint is
\* returned once; on an unpopulated catalog the empty list is returned.
C14_FiltersByNonEmptyOptions == SearchFilters(LAMBDA x : x # JUndef /\ x.v # <<>>)

\* asset, category and an upper-case query all given on a catalog of three
\* endpoints: one of the two endpoints of that asset and category is returned
C14_Witness ==
    /\ Searched
    /\ endpointCatalog # JNull
    /\ Len(Prop(endpointCatalog, <<"endpoints">>).v) = 3
    /\ ret.options = Options(S("btc"), S("market-data"), S("USD"))
    /\ Len(getBaseEndpoints(endpointCatalog, S("btc"), S("market-data"))) = 2
    /\ Len(ret.result) = 1

(***************************************************************************)
(* Properties of parameter validation (specification SpecParams)           *)
(***************************************************************************)
Validated == ret.op = "validateEndpointParams"

\* the required parameters that are not supplied, by position in the required list
MissingRequired ==
    LET required == Prop(ret.endpoint, <<"required_parameters">>).v
    IN  {i \in 1..Len(required) :
            \/ \A n \in 1..Len(ret.params.v) : ret.params.v[n].k # required[i].v
            \/ Prop(ret.params, required[i].v) \in {JUndef, JNull}}

\* the supplied parameters the endpoint declares whose string value is not allowed
Disallowed ==
    LET declared == Prop(ret.endpoint, <<"parameters">>).v
    IN  {n \in 1..Len(ret.params.v) :
            /\ ret.params.v[n].v.t = "string"
            /\ \E d \in 1..Len(declared) :
                  /\ declared[d].k = ret.params.v[n].k
                  /\ ret.params.v[n].v \notin {declared[d].v.v[a] : a \in 1..Len(declared[d].v.v)}}

\* C15: validateEndpointParams is valid if and only if every required parameter
\* is supplied (neither undefined nor null) and every supplied string value of
\* a declared parameter is among its allowed values; it reports one error per
\* violation, and never flags a supplied parameter the endpoint does not declare.
C15_ValidIffNoViolation ==
    Validated =>
        /\ ret.result.valid <=> (MissingRequired = {} /\ Disallowed = {})
        /\ Len(ret.result.errors) = Cardinality(MissingRequired) + Cardinality(Disallowed)
        /\ \A i \in 1..Len(ret.result.errors) :
              ret.result.errors[i][1] = "Invalid value" =>
                 Prop(Prop(ret.endpoint, <<"parameters">>), ret.result.errors[i][2]) # JUndef

\* a required parameter missing, a declared one with a value outside its allowed
\* values and an undeclared one supplied: two errors
C15_Witness ==
    /\ Validated
    /\ ret.params = Params(S("week"), Absent, S("btc_usd"))
    /\ Cardinality(MissingRequired) = 1
    /\ Cardinality(Disallowed) = 1
    /\ Len(ret.result.errors) = 2

(***************************************************************************)
(* Properties of tier resolution and parsing (specification SpecTier)      *)
(***************************************************************************)
\* fetchPlanLimits was answered a JSON payload
Parsed == ret.op = "fetchPlanLimits" /\ ret.success /\ ret.permission.kind = "json"

\* the tier name the payload carries, if any
TierName == OptProp(OptProp(ret.permission.body, <<"plan">>), <<"name">>)

NamesTier == TierName.t = "string" /\ TierName.v # <<>>

Table == planLimitsState.limits

\* the payload's metric has a value of the duration-token grammar
HasValidWindow(md) ==
    /\ md.t \in {"object", "array"}
    /\ \E i \in 1..Len(Entries(md)) :
          Entries(md)[i].v.t = "string" /\ IsDurationToken(Entries(md)[i].v.v)

\* C18: the Permission Table parsed from a payload has no asset "statics",
\* every metric it holds has at least one window entry, every window value
\* matches P<digits><Y|M|W|D>, and a metric of the payload without such a
\* value is not in the table.
C18_TableHoldsValidWindowsOnly ==
    (Parsed /\ Table # JNull) =>
        /\ \A a \in 1..Len(Table.v) :
              /\ Table.v[a].k # <<"statics">>
              /\ \A c \in 1..Len(Table.v[a].v.v) :
                    \A m \in 1..Len(Table.v[a].v.v[c].v.v) :
                       LET window == Prop(Table.v[a].v.v[c].v.v[m].v, <<"window">>)
                       IN  /\ window.t = "object"
                           /\ window.v # <<>>
                           /\ \A w \in 1..Len(window.v) :
                                 /\ window.v[w].v.t = "string"
                                 /\ IsDurationToken(window.v[w].v.v)
        /\ LET apiEndpoint == Prop(ret.permission.body, <<"apiEndpoint">>)
           IN  \A a \in 1..Len(Entries(apiEndpoint)) :
                  \A c \in 1..Len(Entries(Entries(apiEndpoint)[a].v)) :
                     \A m \in 1..Len(Entries(Entries(Entries(apiEndpoint)[a].v)[c].v)) :
                        LET asset == Entries(apiEndpoint)[a]
                            category == Entries(asset.v)[c]
                            metric == Entries(category.v)[m]
                        IN  ~HasValidWindow(metric.v) =>
                               OptProp(OptProp(Prop(Table, asset.k), category.k),
                                       metric.k) = JUndef

\* a payload with an object under "statics" and a metric without a valid
\* window: the table holds the other metric only
C18_Witness ==
    /\ Parsed
    /\ Table # JNull
    /\ Prop(Prop(ret.permission.body, <<"apiEndpoint">>), <<"statics">>).t = "object"
    /\ Prop(Prop(Prop(Prop(ret.permission.body, <<"apiEndpoint">>), <<"btc">>),
                 <<"market-data">>), <<"price">>) = LeafMixed
    /\ Prop(Prop(Prop(Prop(ret.permission.body, <<"apiEndpoint">>), <<"btc">>),
                 <<"market-data">>), <<"mvrv">>) = LeafSoon
    /\ Prop(Prop(Prop(Table, <<"btc">>), <<"market-data">>), <<"price">>) =
           JObj(<<E("window", JObj(<<E("week", JStr(<<"P", "1", "2", "M">>))>>))>>)
    /\ Prop(Prop(Prop(Table, <<"btc">>), <<"market-data">>), <<"mvrv">>) = JUndef

(***************************************************************************)
(* Properties of the limits heuristic (specification SpecHeuristic)        *)
(***************************************************************************)
Detected == ret.op = "detectPlanFromLimits"

\* the positions of the window entries of a Permission Table: asset, category,
\* metric, window
WindowsAt(limits) ==
    UNION {UNION {UNION {
        {<<a, c, m, w>> :
            w \in 1..Len(Prop(limits.v[a].v.v[c].v.v[m].v, <<"window">>).v)} :
        m \in 1..Len(limits.v[a].v.v[c].v.v)} :
        c \in 1..Len(limits.v[a].v.v)} :
        a \in 1..Len(limits.v)}

\* how many window entries of the table equal the duration
EntriesEqual(limits, duration) ==
    Cardinality({p \in WindowsAt(limits) :
        Prop(limits.v[p[1]].v.v[p[2]].v.v[p[3]].v, <<"window">>).v[p[4]].v = duration})

\* C17: detectPlanFromLimits answers basic for a null table or one without
\* window entries; otherwise, with t entries of which d are P1D, u are P0D and
\* y are P3Y: basic if d/t > 1/2, else premium if u/t > 1/2, else professional
\* if y/t > 3/10, else advanced; a ratio equal to a threshold does not reach it.
C17_Thresholds ==
    Detected =>
        IF ret.limits = JNull \/ WindowsAt(ret.limits) = {}
        THEN ret.plan = "basic"
        ELSE LET t == Cardinality(WindowsAt(ret.limits))
                 d == EntriesEqual(ret.limits, Tok("1", "D"))
                 u == EntriesEqual(ret.limits, Tok("0", "D"))
                 y == EntriesEqual(ret.limits, Tok("3", "Y"))
             IN  ret.plan = (IF 2 * d > t THEN "basic"
                             ELSE IF 2 * u > t THEN "premium"
                             ELSE IF 10 * y > 3 * t THEN "professional"
                             ELSE "advanced")

\* ten entries, exactly half of them P1D and exactly three of them P3Y: advanced
C17_Witness ==
    /\ Detected
    /\ ret.limits # JNull
    /\ Cardinality(WindowsAt(ret.limits)) = 10
    /\ EntriesEqual(ret.limits, Tok("1", "D")) = 5
    /\ EntriesEqual(ret.limits, Tok("3", "Y")) = 3
    /\ ret.plan = "advanced"

(***************************************************************************)
(* Properties of date-range validation (specification SpecDates)           *)
(***************************************************************************)
\* validateDateRange was asked about an accessible path, with a from date, on a
\* loaded state of a known tier
RangeChecked ==
    /\ ret.op = "validateDateRange"
    /\ planLimitsState.loaded
    /\ planLimitsState.plan \in KnownTiers
    /\ hasEndpointAccess(planLimitsState, ret.path)
    /\ ret.fromDate \notin {JUndef, JStr(<<>>)}

\* the window entries the Permission Table holds for the path asked about
WindowsOfPath ==
    LET parts == Split(ret.path)
    IN  IF planLimitsState.limits = JNull \/ Len(parts) < 5 THEN <<>>
        ELSE Entries(OptProp(OptProp(OptProp(OptProp(planLimitsState.limits, parts[3]),
                                             parts[4]), JoinFrom(parts, 5)), <<"window">>))

\* the limit of the named window type when the metric has it, otherwise the
\* metric's first window entry; JNull when the metric has none
ApplicableLimit ==
    IF /\ ret.windowType # JUndef
       /\ \E w \in 1..Len(WindowsOfPath) : WindowsOfPath[w].k = ret.windowType.v
    THEN WindowsOfPath[CHOOSE w \in 1..Len(WindowsOfPath) :
                          WindowsOfPath[w].k = ret.windowType.v].v
    ELSE IF WindowsOfPath # <<>> THEN WindowsOfPath[1].v
    ELSE JNull

\* C19: on a loaded state of a known tier, for an accessible path and a
\* supplied fromDate, validateDateRange answers valid when the applicable limit
\* is the unlimited token and invalid when the path has no limit, the
\* applicable limit being the one of the named window type when the metric has
\* it and the metric's first window entry otherwise.
C19_AsStated ==
    RangeChecked =>
        /\ ApplicableLimit = Tok("0", "D") => (~ret.result.raised /\ ret.result.valid)
        /\ ApplicableLimit = JNull => (~ret.result.raised /\ ~ret.result.valid)

\* the window type is a name the metric's windows inherit: the first window
\* entry is the unlimited token, and validateDateRange raises
C19_Witness ==
    /\ RangeChecked
    /\ ret.windowType = S("constructor")
    /\ ApplicableLimit = Tok("0", "D")
    /\ ret.result.raised

\* the limit getPlanLimit finds for the call
FoundLimit == getPlanLimit(planLimitsState, ret.path, ret.windowType)

\* the call is one of RangeChecked whose limit is a finite duration token and
\* whose from date is a date
FiniteRangeChecked ==
    /\ RangeChecked
    /\ FoundLimit.t = "string"
    /\ IsDurationToken(FoundLimit.v)
    /\ FoundLimit # Tok("0", "D")
    /\ DateOfString(ret.fromDate.v) # NaN

\* now minus the offset of the limit: days and weeks counted in ticks, months
\* and years on the calendar
NowMinusOffset ==
    LET amount == ParseInt(SubSeq(FoundLimit.v, 2, Len(FoundLimit.v) - 1))
        unit == FoundLimit.v[Len(FoundLimit.v)]
        today == CivilFromDays(now \div TicksPerDay)
        monthsBack == IF unit = "Y" THEN 12 * amount ELSE amount
    IN  CASE unit = "D" -> now - amount * TicksPerDay
          [] unit = "W" -> now - 7 * amount * TicksPerDay
          [] OTHER -> TicksPerDay * DaysFromCivil(today.year, today.month - monthsBack,
                                                  today.day) + (now % TicksPerDay)

\* C20: with a finite duration limit and a well-formed fromDate,
\* validateDateRange answers invalid if and only if fromDate is strictly
\* earlier than now minus the limit's offset, and the failure carries the
\* date-only form of that instant as earliest_allowed and the raw limit token.
C20_InvalidIffEarlier ==
    FiniteRangeChecked =>
        /\ ~ret.result.raised
        /\ ~ret.result.valid <=> DateOfString(ret.fromDate.v) < NowMinusOffset
        /\ ~ret.result.valid =>
              /\ ret.result.earliest_allowed = JStr(DateOnly(NowMinusOffset))
              /\ ret.result.limit = FoundLimit

\* at noon of 2024-03-31, under a limit of one month, a from date of 2024-03-02
\* is refused: it names midnight, the earliest allowed instant is noon that day
C20_Witness ==
    /\ FiniteRangeChecked
    /\ FoundLimit = Tok("1", "M")
    /\ ret.fromDate = JStr(<<"2", "0", "2", "4", "-", "0", "3", "-", "0", "2">>)
    /\ DateOfString(ret.fromDate.v) < NowMinusOffset
    /\ ~ret.result.valid
    /\ ret.result.earliest_allowed = ret.fromDate
    /\ ret.result.limit = Tok("1", "M")

(***************************************************************************)
(* Properties of duration decoding (specification SpecDecode)              *)
(***************************************************************************)
Decoded == ret.op = "parseDurationToDate"

\* the days of a month of the calendar
DaysInMonth(year, month) ==
    IF month = 2
    THEN (IF year % 4 = 0 /\ (year % 100 # 0 \/ year % 400 = 0) THEN 29 ELSE 28)
    ELSE IF month \in {4, 6, 9, 11} THEN 30 ELSE 31

\* the instant n months before t: the same day of the month and time of day,
\* n months earlier; a day the earlier month does not have runs over into the
\* month after it
MonthsBefore(t, n) ==
    LET c == CivilFromDays(t \div TicksPerDay)
        index == 12 * c.year + (c.month - 1) - n
        year == index \div 12
        month == (index % 12) + 1
        length == DaysInMonth(year, month)
        days == IF c.day <= length THEN DaysFromCivil(year, month, c.day)
                ELSE DaysFromCivil(year, month, length) + (c.day - length)
    IN  TicksPerDay * days + (t % TicksPerDay)

\* the amount and the unit of the token decoded
DecodedAmount == ParseInt(SubSeq(ret.duration, 2, Len(ret.duration) - 1))
DecodedUnit == ret.duration[Len(ret.duration)]

\* n written in decimal
RECURSIVE DecimalOf(_)
DecimalOf(n) ==
    IF n < 10 THEN <<ToString(n)>> ELSE DecimalOf(n \div 10) \o <<ToString(n % 10)>>

Suspended == {c \in AllCalls : pc[c] # "idle"}

\* C22: operations on the session never interleave: while one
\* initializePermissions call is suspended at an await no other initialize
\* call has started and no reset operation has acted on the session state,
\* the plan-limits state or the endpoint catalog.
C22_AsStated ==
    /\ Cardinality(Suspended) <= 1
    /\ ret.op \in {"resetPermissions", "setGuestMode", "clearDiscoveryCache"} =>
          Suspended = {}

\* resetPermissions ran while a cache-hit initialize was suspended, and the
\* call resumed: the session says its plan limits are loaded, the Plan-Limits
\* Resolver holds its defaults
C22_Witness ==
    /\ Suspended = {}
    /\ ret.op = "initialize"
    /\ ret.path = "hit"
    /\ permissionState.authenticated
    /\ permissionState.plan_limits_loaded
    /\ ~planLimitsState.loaded

(***************************************************************************)
(* Properties of the query tools (specification SpecTools)                 *)
(***************************************************************************)
ToolCalled == ret.op \in {"discover_endpoints", "get_endpoint_info", "query_data"}

\* C23: while the session is not authenticated, discover_endpoints,
\* get_endpoint_info and query_data return the failure "Not authenticated",
\* consult no catalog and send no request.
C23_RefusedBeforeAuth ==
    (ToolCalled /\ ~permissionState.authenticated) =>
        /\ ~ret.result.raised
        /\ ~ret.result.success
        /\ ret.result.error = S("Not authenticated")
        /\ ~ret.result.lookup
        /\ ~ret.result.sent

\* query_data on a session that was reset after an initialize that wrote the
\* cache and populated nothing since: it is refused
C23_Witness ==
    /\ ret.op = "query_data"
    /\ ~permissionState.authenticated
    /\ cacheFile # FileMissing
    /\ endpointCatalog = JNull
    /\ ret.result = ToolRefused(<<"Not authenticated">>, FALSE)

Queried == ret.op = "query_data"

QueriedEndpoint == getEndpointByPath(endpointCatalog, ret.endpoint)

\* what validateDateRange answers for the query
QueriedRange ==
    validateDateRange(planLimitsState, ret.endpoint, Prop(ret.params, <<"from">>),
                      Prop(ret.params, <<"window">>), now)

\* the guards of query_data, in order: the error of the first one that does
\* not hold, JUndef when all hold
FirstFailingGuard ==
    IF ~permissionState.authenticated THEN S("Not authenticated")
    ELSE IF QueriedEndpoint = JUndef THEN JStr(<<"Unknown endpoint: ">> \o ret.endpoint)
    ELSE IF ~validateEndpointParams(QueriedEndpoint, ret.params).valid
    THEN S("Invalid parameters")
    ELSE IF planLimitsState.loaded /\ ~hasEndpointAccess(planLimitsState, ret.endpoint)
    THEN S("Endpoint not accessible on your plan")
    ELSE IF /\ planLimitsState.loaded
            /\ <<"from">> \in {ret.params.v[i].k : i \in 1..Len(ret.params.v)}
            /\ ~QueriedRange.valid
    THEN QueriedRange.error
    ELSE JUndef

\* C28: query_data sends its request only when the session is authenticated,
\* the endpoint is in the catalog, the parameters are valid and, with plan
\* limits loaded, the endpoint is accessible and the supplied from date is in
\* range; when a guard fails it returns the failure of the first failing
\* guard, in that order, and sends nothing.
C28_AsStated ==
    Queried =>
        /\ ret.result.sent => FirstFailingGuard = JUndef
        /\ FirstFailingGuard # JUndef =>
              /\ ~ret.result.raised
              /\ ~ret.result.success
              /\ ~ret.result.sent
              /\ ret.result.error = FirstFailingGuard

\* a from date with the window "constructor" on an endpoint that declares no
\* window parameter: validateDateRange raises inside the handler
C28_Witness ==
    /\ Queried
    /\ permissionState.authenticated
    /\ planLimitsState.loaded
    /\ ret.endpoint = PathMvrv
    /\ validateEndpointParams(QueriedEndpoint, ret.params).valid
    /\ Prop(ret.params, <<"window">>) = S("constructor")
    /\ ret.result.raised
    /\ ~ret.result.sent

(***************************************************************************)
(* Properties of a failed catalog fetch (specification Spec)               *)
(***************************************************************************)
\* a step of a call on the cache-miss branch up to the answer of its catalog
\* fetch: the call reaches the await, waits at it, or returns from it failed
MissUpToCatalogFailure(c) ==
    \/ pc'[c] = "miss-await-discovery"
    \/ pc[c] = "miss-await-discovery" /\ pc'[c] = "idle"

\* C24: from the start of an initialize call that misses the cache to its
\* return with the failure of the catalog fetch, the session state, the
\* plan-limits state, the endpoint catalog, the cached-discovery record and
\* the cache file do not change.
C24_FailedCatalogFetchChangesNothing ==
    [][(\E c \in AllCalls : MissUpToCatalogFailure(c)) =>
          UNCHANGED <<permissionState, planLimitsState, endpointCatalog, cachedDiscovery,
                      cacheFile>>]_vars

\* a second initialize missed the cache and failed at its catalog fetch: the
\* session, the limits, the catalog and the file of the first one are in place
C24_Witness ==
    /\ ret.op = "initialize"
    /\ ~ret.raised
    /\ ret.path = "miss"
    /\ ret.discovery # NoResponse
    /\ ~ret.result.success
    /\ permissionState.authenticated
    /\ planLimitsState.loaded
    /\ endpointCatalog # JNull
    /\ cachedDiscovery # JNull
    /\ cacheFile \notin {FileMissing, FileGarbage}

(***************************************************************************)
(* Properties of the cache across initialize calls (specification Spec)    *)
(***************************************************************************)
\* the permission payloads initializePermissions writes to the cache
CachedResponses ==
    {response \in SessionPlanResponses :
        LET r == fetchPlanLimits(response, PLAN_DEFAULT_STATE, 0)
        IN  /\ r.success /\ Truthy(r.rawResponse) /\ Truthy(r.parsed)
            /\ Truthy(extractRawResponse(r.rawResponse))
            /\ ~generateSummaryThrows(Prop(r.parsed, <<"statics">>))}

\* the cache files initializePermissions writes: for which credential and
\* service URL, and when
WrittenRecords ==
    {[apiKey |-> l[1], apiUrl |-> l[2], at |-> w,
      file |-> LET r == fetchPlanLimits(response, PLAN_DEFAULT_STATE, w)
               IN  writeCache(l[2], l[1], extractRawResponse(r.rawResponse), r.parsed,
                              generateSummary(Prop(r.parsed, <<"limits">>),
                                              Prop(r.parsed, <<"statics">>)), r.plan, w)] :
        l \in Logins, w \in 0..MaxTime, response \in CachedResponses}

\* initializePermissions has just looked the cache up and is at its first await
InitializeStarted == ret.op = "await" /\ "at" \in DOMAIN ret

\* C25: once an initialize wrote the cache (from_cache false, cache_status
\* fresh), an initialize with the same credential and service URL that finds
\* the file as written takes the cache-hit branch while at most
\* CACHE_TTL_DAYS days passed since the write, and the fresh-fetch branch
\* after that; the cache-hit branch returns from_cache true without a
\* permission fetch.
C25_HitWithinTtl ==
    /\ InitializeStarted =>
          \A rec \in WrittenRecords :
              (rec.apiKey = ret.apiKey /\ rec.apiUrl = ret.apiUrl /\ rec.file = cacheFile) =>
                  IF ret.at - rec.at <= CACHE_TTL_DAYS
                  THEN pc[ret.call] = "hit-await-discovery"
                  ELSE pc[ret.call] = "miss-await-discovery"
    /\ (ret.op = "initialize" /\ ~ret.raised) =>
          /\ ret.result.cache_status = S("fresh") =>
                /\ ret.result.success /\ ~ret.result.from_cache
                /\ \E rec \in WrittenRecords :
                      /\ rec.apiKey = ret.apiKey /\ rec.apiUrl = ret.apiUrl
                      /\ rec.at = now /\ rec.file = cacheFile
          /\ ret.path = "hit" =>
                /\ ret.result.success /\ ret.result.from_cache
                /\ ret.permission = NoResponse
          /\ ret.path = "miss" => ~ret.result.from_cache

\* an initialize returns from the cache exactly CACHE_TTL_DAYS days after the
\* record was written for its credential and service URL
C25_Witness ==
    /\ ret.op = "initialize"
    /\ ~ret.raised
    /\ ret.path = "hit"
    /\ ret.result.from_cache
    /\ ret.permission = NoResponse
    /\ \E rec \in WrittenRecords :
          /\ rec.apiKey = ret.apiKey /\ rec.apiUrl = ret.apiUrl
          /\ rec.file = cacheFile
          /\ now = rec.at + CACHE_TTL_DAYS

(***************************************************************************)
(* reset_session (specification SpecSession)                               *)
(***************************************************************************)
\* a step that starts initializePermissions
InitializeStep == \E c \in SeqCalls : pc[c] = "idle" /\ inits' # inits

\* C26: reset_session always puts the in-memory session, plan limits, catalog
\* and cached discovery back to their defaults; it removes the credential file
\* exactly when clear_stored is true and the cache file exactly when
\* clear_cache is true, and leaves the cache file as it was otherwise; once
\* reset_session(clear_cache = true) has removed the cache file it stays
\* missing until an initialize writes it, and an initialize that starts while
\* it is missing takes the fresh-fetch path and, if it returns, returns
\* from_cache = false
C26_Step ==
    /\ ret'.op = "reset_session" =>
          /\ permissionState' = PERMISSION_DEFAULT_STATE
          /\ planLimitsState' = PLAN_DEFAULT_STATE
          /\ cachedDiscovery' = JNull
          /\ endpointCatalog' = JNull
          /\ ("credentials" \in ret'.unlinked) <=> (ret'.clear_stored = JBool(TRUE))
          /\ ("discovery-cache.json" \in ret'.unlinked) <=> (ret'.clear_cache = JBool(TRUE))
          /\ ret'.found = cacheFile
          /\ cacheFile' = IF ret'.clear_cache = JBool(TRUE) THEN FileMissing ELSE cacheFile
    /\ (ret.op = "reset_session" /\ ret.clear_cache = JBool(TRUE)) => cacheFile = FileMissing
    /\ (cacheFile = FileMissing /\ cacheFile' # FileMissing) =>
          \E c \in SeqCalls : pc[c] = "await-plan" /\ pc'[c] = "idle"
    /\ (cacheFile = FileMissing /\ InitializeStep) =>
          \E c \in SeqCalls : pc'[c] = "miss-await-discovery"
    /\ \A c \in SeqCalls :
          (pc[c] \in {"miss-await-discovery", "await-plan"} /\ pc'[c] = "idle") =>
              ~ret'.result.from_cache

RecordUrl(cache) == Prop(Prop(cache, <<"metadata">>), <<"api_url">>)

\* C27: the store holds one record for every service URL, the one written
\* last: after writeCache for a URL, readCache for any URL returns that record
\* and isCacheValid rejects it for every other URL; an initialize for a URL
\* other than the record's is a cache miss; invalidateCache leaves no record
\* for any URL
C27_Step ==
    /\ \A u1 \in ApiUrls, u2 \in ApiUrls :
          readCache(cacheFile', u1) = readCache(cacheFile', u2)
    /\ ret'.op = "writeCache" =>
          \A u \in ApiUrls :
              LET cache == readCache(cacheFile', u)
              IN  /\ Truthy(cache)
                  /\ RecordUrl(cache) = JStr(ret'.apiUrl)
                  /\ isCacheValid(cache, u, Slice(ret'.apiKey, 8), now') <=> u = ret'.apiUrl
    /\ ret'.op = "isCacheValid" =>
          /\ ret'.cache = readCache(cacheFile, ret'.apiUrl)
          /\ RecordUrl(ret'.cache) # JStr(ret'.apiUrl) => ~ret'.result
    /\ (InitializeStep /\ RecordUrl(readCache(cacheFile, UrlProd)) # JStr(ret'.apiUrl)) =>
          /\ ret'.cache = readCache(cacheFile, UrlProd)
          /\ \E c \in SeqCalls : pc'[c] = "miss-await-discovery"
    /\ ret'.op = "invalidateCache" =>
          \A u \in ApiUrls : readCache(cacheFile', u) = JNull

C29_AuthenticatedIffCredential ==
    permissionState.authenticated <=> permissionState.api_key # JNull

\* a second initialize has returned success and the session holds its credential
C29_Witness ==
    /\ ret.op = "initialize"
    /\ ~ret.raised
    /\ ret.result.success
    /\ inits = MaxInits
    /\ permissionState.authenticated
    /\ permissionState.api_key = JStr(ret.apiKey)

\* C30: in every state reached by initialize, reset and guest-mode calls, the
\* tier and the plan_limits_loaded flag of the session state are the tier and
\* the loaded flag of the plan-limits state that hasEndpointAccess and
\* validateDateRange read
C30_AsStated ==
    /\ permissionState.plan = planLimitsState.plan
    /\ permissionState.plan_limits_loaded = planLimitsState.loaded

\* an initialize for a second credential has fetched that credential's plan
\* limits and then failed; the session still holds the first credential and
\* its tier, the plan-limits state holds the second credential's tier
C30_Witness ==
    /\ Idle
    /\ ret.op = "initialize"
    /\ ~ret.raised
    /\ ~ret.result.success
    /\ permissionState.authenticated
    /\ permissionState.api_key # JStr(ret.apiKey)
    /\ planLimitsState.loaded
    /\ permissionState.plan # planLimitsState.plan

(***************************************************************************)
(* Whose data gates the session (specification Spec)                       *)
(***************************************************************************)
\* the part of the plan-limits state that gates requests: loaded flag, tier,
\* Permission Table, Static Endpoint List
Gating(pls) ==
    [loaded |-> pls.loaded, plan |-> pls.plan, limits |-> pls.limits, statics |-> pls.statics]

\* an initializePermissions call has just returned success
InitializeSucceeded == ret.op = "initialize" /\ ~ret.raised /\ ret.result.success

\* metadata.api_key_prefix of a record
RecordPrefix(cache) == Prop(Prop(cache, <<"metadata">>), <<"api_key_prefix">>)

\* C31: after every successful initialize the gating part of the plan-limits
\* state is what this call's permission response yields (nothing, when the
\* fetch failed) or, on a cache hit, what the record of this call's credential
\* and service URL holds; nothing loaded for an earlier credential stays
C31_AsStated ==
    InitializeSucceeded =>
        IF ret.path = "hit"
        THEN /\ RecordPrefix(ret.cache) = JStr(Slice(ret.apiKey, 8))
             /\ RecordUrl(ret.cache) = JStr(ret.apiUrl)
             /\ Gating(planLimitsState) =
                    Gating(loadPlanLimitsFromCache(
                               Prop(Prop(ret.cache, <<"parsed">>), <<"limits">>),
                               Prop(Prop(ret.cache, <<"parsed">>), <<"statics">>),
                               Prop(Prop(ret.cache, <<"parsed">>), <<"apiRateLimit">>),
                               PlanOf(Prop(Prop(ret.cache, <<"metadata">>), <<"plan">>)), now))
        ELSE Gating(planLimitsState) =
                 Gating(fetchPlanLimits(ret.permission, PLAN_DEFAULT_STATE, now).state)

\* an initialize has returned success although its permission fetch failed; the
\* plan limits in force are loaded ones, and the cached-discovery record still
\* held is that of another credential
C31_Witness ==
    /\ InitializeSucceeded
    /\ ret.path = "miss"
    /\ ~fetchPlanLimits(ret.permission, PLAN_DEFAULT_STATE, now).success
    /\ permissionState.api_key = JStr(ret.apiKey)
    /\ planLimitsState.loaded
    /\ Truthy(planLimitsState.limits)
    /\ Truthy(cachedDiscovery)
    /\ RecordPrefix(cachedDiscovery) # JStr(Slice(ret.apiKey, 8))

(***************************************************************************)
(* Account switch (specification SpecSwitch)                               *)
(***************************************************************************)
\* the record holds the permission data of the credential's account
WrittenFor(cache, apiKey) ==
    Prop(cache, <<"parsed">>) =
        fetchPlanLimits(Json(AccountBody(apiKey)), PLAN_DEFAULT_STATE, 0).parsed

\* an initializePermissions call has just returned from its cache-hit branch
ReturnedFromCache == InitializeSucceeded /\ ret.path = "hit"

\* the statement as written: for every pair of distinct credentials, a record
\* written for one never populates the session of the other
C32_AsStated ==
    ReturnedFromCache =>
        \A a \in ApiKeys : a # ret.apiKey => ~WrittenFor(cachedDiscovery, a)

\* C32: a record written by an initialize with one credential never populates
\* the session of an initialize with a credential whose first 8 characters
\* differ, on the same service URL: such a call misses the cache, and a call
\* that returns from the cache holds a record with its own prefix
C32_PrefixSwitchDetected ==
    /\ ReturnedFromCache =>
          /\ cachedDiscovery = ret.cache
          /\ RecordPrefix(ret.cache) = JStr(Slice(ret.apiKey, 8))
          /\ \A a \in ApiKeys :
                Slice(a, 8) # Slice(ret.apiKey, 8) => ~WrittenFor(cachedDiscovery, a)
    /\ (InitializeStarted /\ Truthy(ret.cache)
        /\ RecordPrefix(ret.cache) # JStr(Slice(ret.apiKey, 8))) =>
          pc[ret.call] = "miss-await-discovery"

\* an initialize with another account's credential finds the record the first
\* account wrote, still within its time to live, and misses the cache
C32_Witness ==
    /\ InitializeStarted
    /\ ret.apiKey = KeyShort
    /\ WrittenFor(ret.cache, KeyAlice)
    /\ isCacheValid(ret.cache, ret.apiUrl, Slice(KeyAlice, 8), now)
    /\ pc[ret.call] = "miss-await-discovery"

(***************************************************************************)
(* The cached-discovery record of the session (specification Spec)         *)
(***************************************************************************)
\* C33: after every successful initialize the in-memory cached-discovery
\* record is null or carries the credential prefix and service URL of that
\* call
C33_AsStated ==
    InitializeSucceeded =>
        \/ cachedDiscovery = JNull
        \/ /\ RecordPrefix(cachedDiscovery) = JStr(Slice(ret.apiKey, 8))
           /\ RecordUrl(cachedDiscovery) = JStr(ret.apiUrl)

\* an initialize whose permission fetch was answered, but with nothing to
\* cache, has returned success; the record in memory carries another prefix
C33_Witness ==
    /\ InitializeSucceeded
    /\ ret.path = "miss"
    /\ ret.result.cache_status = S("none")
    /\ fetchPlanLimits(ret.permission, PLAN_DEFAULT_STATE, now).success
    /\ Truthy(cachedDiscovery)
    /\ RecordPrefix(cachedDiscovery) # JStr(Slice(ret.apiKey, 8))

(***************************************************************************)
(* A cache file that cannot be written (specification Spec)                *)
(***************************************************************************)
\* an initializePermissions call has just returned after writeCache raised
CacheWriteRaised == ret.op = "initialize" /\ ~ret.raised /\ ret.fs # "ok"

\* C34: when both fetches succeed on a cache miss and writing the cache file
\* raises, initialize reports success and the session is authenticated with
\* the call's credential and the tier just fetched
C34_AsStated ==
    CacheWriteRaised =>
        /\ ret.result.success
        /\ permissionState.authenticated
        /\ permissionState.api_key = JStr(ret.apiKey)
        /\ permissionState.plan = planLimitsState.plan

\* a first initialize has fetched the catalog and the plan limits, writeFileSync
\* has raised, and the call has returned failure with the session
\* unauthenticated over loaded plan limits
C34_Witness ==
    /\ CacheWriteRaised
    /\ ret.fs = "write-failed"
    /\ ~ret.result.success
    /\ ~permissionState.authenticated
    /\ planLimitsState.loaded
    /\ endpointCatalog # JNull

(***************************************************************************)
(* Overlapping initialize calls (specification SpecOverlap)                *)
(***************************************************************************)
\* both calls have been made and have returned
BothReturned == inits = 2 /\ Idle

\* the endpoints of a catalog, whenever it was fetched
Listed(catalog) == Prop(catalog, <<"endpoints">>)

\* session credential, session tier, plan-limits state and catalog are those
\* of the call made with this credential
StemsFrom(apiKey) ==
    LET own == fetchPlanLimits(Json(AccountBody(apiKey)), PLAN_DEFAULT_STATE, 0).state
    IN  /\ permissionState.api_key = JStr(apiKey)
        /\ permissionState.plan = own.plan
        /\ Gating(planLimitsState) = Gating(own)
        /\ Listed(endpointCatalog) =
               Listed(fetchDiscoveryEndpoints(Json(AccountCatalog(apiKey)), JNull, 0).catalog)

\* C35: once two overlapping initialize calls with different credentials have
\* both returned, the session credential, the session tier, the plan-limits
\* state and the catalog all stem from the same one of the two calls
C35_AsStated == BothReturned => \E apiKey \in OverlapKeys : StemsFrom(apiKey)

\* the first call found its own record in the cache and was suspended while
\* the second call ran its fresh fetch; both have returned: the session holds
\* the first call's credential and tier, the plan-limits state is the
\* second call's, the catalog the first call's
C35_Witness ==
    /\ BothReturned
    /\ ret.op = "initialize"
    /\ ret.path = "hit"
    /\ permissionState.api_key = JStr(KeyAlice)
    /\ permissionState.plan = "professional"
    /\ planLimitsState.plan = "basic"
    /\ Listed(endpointCatalog) =
           Listed(fetchDiscoveryEndpoints(Json(AccountCatalog(KeyAlice)), JNull, 0).catalog)

(***************************************************************************)
(* Reset while a call is in flight (specification SpecConcurrent)          *)
(***************************************************************************)
\* a suspended initializePermissions call resumes
Resumes == \E c \in AllCalls : pc[c] # "idle" /\ pc'[c] # pc[c]

\* C36: an initialize call that was suspended at an await when
\* resetPermissions ran does not re-authenticate the session or repopulate
\* the plan-limits state or the catalog when it resumes: the step that
\* resumes it right after the reset leaves the session unauthenticated, the
\* plan-limits state at its defaults and the catalog empty
C36_Step ==
    (ret.op = "resetPermissions" /\ Resumes) =>
        /\ ~permissionState'.authenticated
        /\ planLimitsState' = PLAN_DEFAULT_STATE
        /\ endpointCatalog' = JNull

C36_AsStated == [][C36_Step]_vars

\* the only initialize call made so far was reset between its catalog fetch
\* and its permission fetch, and has returned: the session is authenticated
\* and the plan limits are loaded, over the catalog the reset emptied
C36_Witness ==
    /\ inits = 1
    /\ Suspended = {}
    /\ ret.op = "initialize"
    /\ ret.path = "miss"
    /\ ret.result.success
    /\ permissionState.authenticated
    /\ planLimitsState.loaded
    /\ endpointCatalog = JNull

(***************************************************************************)
(* The earliest allowed date (specification SpecDates)                     *)
(***************************************************************************)
\* validateDateRange has just refused a request as beyond the plan limit
RangeExceeded ==
    /\ ret.op = "validateDateRange"
    /\ ret.result.error = S("Date range exceeds plan limit")

\* validateDateRange called again for the same path and window at the same
\* instant, from the earliest allowed date the refusal named
Retried ==
    validateDateRange(planLimitsState, ret.path, ret.result.earliest_allowed,
                      ret.windowType, now)

\* C37: whenever validateDateRange refuses with "Date range exceeds plan
\* limit" and an earliest allowed date, the same call made again at the same
\* instant from that date is valid
C37_AsStated == RangeExceeded => Retried.valid

\* a refusal at noon names the day of the earliest allowed instant, and the
\* call repeated from that day is refused with the same earliest allowed date
C37_Witness ==
    /\ RangeExceeded
    /\ now % TicksPerDay # 0
    /\ Retried.error = S("Date range exceeds plan limit")
    /\ Retried.earliest_allowed = ret.result.earliest_allowed

(***************************************************************************)
(* The upgrade hint of a denial (specification SpecAccess)                 *)
(***************************************************************************)
\* basic < advanced < professional < premium < custom
TierRank(plan) ==
    CASE plan = "basic" -> 1
      [] plan = "advanced" -> 2
      [] plan = "professional" -> 3
      [] plan = "premium" -> 4
      [] plan = "custom" -> 5
      [] OTHER -> 0

\* C38: in every loaded state with a known tier, whenever hasEndpointAccess
\* denies a path, getRequiredPlan names a tier strictly above the current one
C38_HintAboveCurrentTier ==
    (/\ ret.op = "getRequiredPlan"
     /\ planLimitsState.loaded
     /\ planLimitsState.plan \in KnownTiers
     /\ ~ret.access) =>
        TierRank(ret.result) > TierRank(planLimitsState.plan)

\* an advanced tier with a Permission Table is denied a path the table does
\* not list, and the hint names professional
C38_Witness ==
    /\ ret.op = "getRequiredPlan"
    /\ planLimitsState.loaded
    /\ planLimitsState.plan = "advanced"
    /\ Truthy(planLimitsState.limits)
    /\ ~ret.access
    /\ ret.result = "professional"

(***************************************************************************)
(* Static endpoints and the date range (specification SpecDates)           *)
(***************************************************************************)
\* validateDateRange has just answered for a path of the Static Endpoint List
\* of a loaded state
StaticPathValidated ==
    /\ ret.op = "validateDateRange"
    /\ planLimitsState.loaded
    /\ InStaticList(planLimitsState, ret.path)

\* C39: for every loaded state, tier and requested from date,
\* validateDateRange never refuses a path of the Static Endpoint List
C39_AsStated == StaticPathValidated => (~ret.result.raised /\ ret.result.valid)

\* a static path with a from date is refused for having no entry in the
\* Permission Table, while hasEndpointAccess grants it
C39_Witness ==
    /\ StaticPathValidated
    /\ planLimitsState.plan = "professional"
    /\ hasEndpointAccess(planLimitsState, ret.path)
    /\ Truthy(ret.fromDate)
    /\ ret.result.error = S("No access to this endpoint/window combination")

(***************************************************************************)
(* An authenticated session without a catalog (specification SpecTools)    *)
(***************************************************************************)
\* C40 as stated: whenever the session is authenticated the endpoint catalog
\* is populated
C40_AsStated == permissionState.authenticated => endpointCatalog # JNull

\* C40: a session authenticated by a fresh fetch has a populated catalog; a
\* session authenticated from the cache may have none, and then
\* discover_endpoints answers "Discovery data not loaded" and query_data
\* sends no request
C40_CatalogUnlessFromCache ==
    /\ (permissionState.authenticated /\ ~permissionState.from_cache) =>
          endpointCatalog # JNull
    /\ (permissionState.authenticated /\ endpointCatalog = JNull) =>
          /\ ret.op = "discover_endpoints" =>
                ret.result = ToolRefused(<<"Discovery data not loaded">>, TRUE)
          /\ ret.op = "query_data" =>
                ~ret.result.raised /\ ~ret.result.success /\ ~ret.result.sent

\* discover_endpoints is refused for want of discovery data in a session that
\* a cache hit authenticated after a reset, its catalog fetch having failed
C40_Witness ==
    /\ ret.op = "discover_endpoints"
    /\ permissionState.authenticated
    /\ permissionState.from_cache
    /\ endpointCatalog = JNull
    /\ ret.result.error = JStr(<<"Discovery data not loaded">>)

====
